---- MODULE Spec2Model ----
(***************************************************************************)
(* Verification model of the Math Drill add-on core: the JSON stores       *)
(* (json_storage.py), the achievement manager (gamification.py) and the    *)
(* level progression engine (levels_manager.py).                           *)
(*                                                                         *)
(* Number encodings.  Python floats are modelled by exact scaled integers: *)
(*   - a difficulty d is kept as d*100;                                    *)
(*   - a success rate k/n with n <= 10 is kept as k*2520/n (RateScale,     *)
(*     2520 = lcm(1..10), so the quotient is exact);                       *)
(*   - a level accuracy correct/total*100 is kept as the pair              *)
(*     <<correct, total>> and compared by cross-multiplication.            *)
(* Times are whole seconds.                                                *)
(***************************************************************************)
EXTENDS Integers, Sequences, FiniteSets, TLC

VARIABLES
    adaptive,       \* adaptive_difficulty.json : list of AdaptiveDifficultyRecord
    adaptiveCalls,  \* number of update_adaptive_difficulty calls issued so far
    adaptiveUpdates, \* history: <<operation, digits, correct, time_taken>> of each call
    attempts,       \* attempts.json : list of Attempt, in arrival (timestamp) order
    weakness,       \* weakness_tracking.json : list of SkillProfile
    weaknessCalls,  \* number of update_weakness_tracking calls issued so far
    weaknessUpdates, \* history: <<operation, digits, correct>> of those calls, in order
    achievements,   \* achievements.json : list of AchievementUnlockRecord
    unlocked,       \* AchievementManager.unlocked of each manager instance
    unlockReturns,  \* history: per badge code, the results of its _try_unlock calls
    newlyUnlocked,  \* result of the last check_achievements call
    checkLog,       \* history: session data and result of each check_achievements
                    \* call, and the direct _try_unlock calls
    badgeOps,       \* number of achievement operations issued so far
    completions,    \* LevelsManager.completions : levelId -> LevelCompletionRecord
    levelResult,    \* the last complete_level call: its input and what it returned
    submitted,      \* history: per level, the set of results submitted so far
    levelCalls,     \* number of complete_level calls issued so far
    jsonFile,       \* one collection file written by _append_to_json_file
    fileLock,       \* _file_lock: "free" or the thread holding it
    pc,             \* per thread, its position in _append_to_json_file
    loaded,         \* per thread, the list it loaded (local variable data)
    newItem,        \* per thread, the item of its current call
    appendCalls,    \* per thread, the number of calls it has issued
    appended,       \* history: the items whose call returned True
    diskText,       \* the text of one collection file on disk, or MissingFile
    filePc,         \* position of the caller inside _load_json_file / _save_json_file
    saveData,       \* argument data of the current or last _save_json_file
    diskBefore,     \* history: the text on disk when the last save opened the file
    loadResult,     \* what the last completed _load_json_file returned
    fileOps,        \* number of load/save calls and crashes so far
    sessions,       \* sessions.json : list of Session
    currentSessionId, \* PythonBridge.current_session_id, 0 for None
    sessionActive,  \* MathDrillWebEngine.session_active
    sessionMode,    \* MathDrillWebEngine.session_mode
    activeLevelId,  \* MathDrillWebEngine.active_level_id, 0 for None
    sessionStats,   \* MathDrillWebEngine.session_stats
    levelProgress,  \* levels.LevelManager.progress['completed'] : level id -> stars
    lastCall,       \* the last bridge request: its input and what it returned
    sessionOps,     \* number of bridge requests issued so far
    today,          \* date.today(), as a day number
    lastPracticed,  \* weakness_tracking.json : last_practiced of each cell, 0 when untracked
    knowledgeMap,   \* SmartCoach.knowledge_map
    areas,          \* what the last get_weakness_areas call returned
    recommendation, \* what the last get_recommendation call returned
    practiceCalls,  \* number of practised questions so far
    recommendCalls, \* number of get_recommendation calls so far
    jsonStore,          \* the JSON collections and the level progress file, by name
    bundle,         \* the bundle the last export returned
    exportedFrom,   \* history: the store the last export read
    storeBefore,    \* history: the store before the last operation
    storeCall,      \* the last operation on the store and its arguments
    clock,          \* datetime.now(), as a tick number
    storeDay,       \* date.today(), as a day number
    storeOps,       \* number of operations on the store so far
    currentFocusArea,\* MathDrillWebEngine.current_focus_area, NoFocus for None
    focusSessionCount,\* MathDrillWebEngine.focus_session_count
    focusAnswered,  \* history: questions answered since the focus was chosen
    coachResult,    \* what the last get_coach_recommendation sent
    badgeStatus,    \* what the last get_achievements sent, and the stored codes then
    retakeActive,   \* MathDrill.retake_active
    retakeQueue,    \* MathDrill.retake_queue, the question texts in order
    retakeMastery,  \* MathDrill.retake_mastery : question text -> count
    shownQuestion,  \* question_label.text(), NoQuestion when none is shown
    startTimeSet,   \* MathDrill.start_time is not None
    inputReadOnly,  \* answer_input.isReadOnly()
    timerPending,   \* a QTimer.singleShot(generate_question) has not fired yet
    retakeSet,      \* history: the questions the retake was started with
    retakeLog,      \* history: per question, the verdicts check_answer credited to it
    retakeOps,      \* number of retake events so far
    completionFile, \* the text of the completion file on disk
    tempFile,       \* the text of the .tmp file beside it, or MissingFile
    atomicPc,       \* position of the caller inside _atomic_write
    atomicData,     \* the completions list being saved
    atomicReturn,   \* what the last _atomic_write returned, and whether os.remove raised
    completionBefore,\* history: the completion file when the call began
    atomicOps,      \* number of calls, errors and crashes so far
    attemptsData,   \* AttemptsManager user file: lastId and the ids of the stored attempts
    saveCalls,      \* number of save_attempts calls so far
    userFile,       \* the text of one file of data/user
    backups,        \* the backup zips, oldest first: the user file each one holds
    importCall,     \* the last Bridge.import_data: the file before it and what the backup did
    importOps       \* number of import requests so far

varsAdaptive == <<adaptive, adaptiveCalls, adaptiveUpdates>>
varsWeakness == <<attempts, weakness, weaknessCalls, weaknessUpdates>>
varsBadges ==
    <<achievements, unlocked, unlockReturns, newlyUnlocked, checkLog, badgeOps>>

varsLevels == <<completions, levelResult, submitted, levelCalls>>

varsAppend == <<jsonFile, fileLock, pc, loaded, newItem, appendCalls, appended>>

varsFile == <<diskText, filePc, saveData, diskBefore, loadResult, fileOps>>

varsSession ==
    <<sessions, currentSessionId, sessionActive, sessionMode, activeLevelId,
      sessionStats, levelProgress, lastCall, sessionOps>>

varsCoach ==
    <<today, lastPracticed, knowledgeMap, areas, recommendation, practiceCalls,
      recommendCalls>>

varsStore ==
    <<jsonStore, bundle, exportedFrom, storeBefore, storeCall, clock, storeDay, storeOps>>

varsFocus == <<currentFocusArea, focusSessionCount, focusAnswered, coachResult>>

varsStatus == <<badgeStatus>>

varsRetake == <<retakeActive, retakeQueue, retakeMastery, shownQuestion, startTimeSet, inputReadOnly, timerPending, retakeSet, retakeLog, retakeOps>>

varsAtomic == <<completionFile, tempFile, atomicPc, atomicData, atomicReturn, completionBefore, atomicOps>>

varsManager == <<attemptsData, saveCalls>>

varsImport == <<userFile, backups, importCall, importOps>>

vars ==
    <<varsAdaptive, varsWeakness, varsBadges, varsLevels, varsAppend, varsFile,
      varsSession, varsCoach, varsStore,
      varsFocus,
      varsStatus,
      varsRetake,
      varsAtomic,
      varsManager,
      varsImport>>

otherThanAdaptive ==
    <<varsWeakness, varsBadges, varsLevels, varsAppend, varsFile,
      varsSession, varsCoach,
      varsStore,
      varsFocus,
      varsStatus,
      varsRetake,
      varsAtomic,
      varsManager,
      varsImport>>
otherThanWeakness ==
    <<varsAdaptive, varsBadges, varsLevels, varsAppend, varsFile,
      varsSession, varsCoach,
      varsStore,
      varsFocus,
      varsStatus,
      varsRetake,
      varsAtomic,
      varsManager,
      varsImport>>
otherThanBadges ==
    <<varsAdaptive, varsWeakness, varsLevels, varsAppend, varsFile,
      varsSession, varsCoach,
      varsStore,
      varsFocus,
      varsStatus,
      varsRetake,
      varsAtomic,
      varsManager,
      varsImport>>
otherThanLevels ==
    <<varsAdaptive, varsWeakness, varsBadges, varsAppend, varsFile,
      varsSession, varsCoach,
      varsStore,
      varsFocus,
      varsStatus,
      varsRetake,
      varsAtomic,
      varsManager,
      varsImport>>
otherThanAppend ==
    <<varsAdaptive, varsWeakness, varsBadges, varsLevels, varsFile,
      varsSession, varsCoach,
      varsStore,
      varsFocus,
      varsStatus,
      varsRetake,
      varsAtomic,
      varsManager,
      varsImport>>
otherThanFile ==
    <<varsAdaptive, varsWeakness, varsBadges, varsLevels,
      jsonFile, pc, loaded, newItem, appendCalls, appended, varsSession,
      varsCoach,
      varsStore,
      varsFocus,
      varsStatus,
      varsRetake,
      varsAtomic,
      varsManager,
      varsImport>>
\* a bridge request writes the attempt, adaptive, weakness and achievement
\* stores as well as the session state
otherThanSession ==
    <<adaptiveCalls, weaknessCalls, badgeOps, varsLevels, varsAppend, varsFile,
      varsCoach,
      varsStore,
      varsFocus,
      varsStatus,
      varsRetake,
      varsAtomic,
      varsManager,
      varsImport>>
otherThanStore ==
    <<varsAdaptive, varsWeakness, varsBadges, varsLevels, varsAppend, varsFile,
      varsSession, varsCoach,
      varsFocus,
      varsStatus,
      varsRetake,
      varsAtomic,
      varsManager,
      varsImport>>
\* a practised question writes the attempt and weakness stores
otherThanCoach ==
    <<varsAdaptive, weaknessCalls, varsBadges, varsLevels, varsAppend, varsFile,
      varsSession,
      varsStore,
      varsFocus,
      varsStatus,
      varsRetake,
      varsAtomic,
      varsManager,
      varsImport>>

otherThanFocus ==
    <<varsAdaptive, varsWeakness, varsBadges, varsLevels, varsAppend, varsFile,
      varsSession, varsCoach, varsStore,
      varsStatus,
      varsRetake,
      varsAtomic,
      varsManager,
      varsImport>>

\* a status query reads the bridge's manager and counts as an operation
otherThanStatus ==
    <<varsAdaptive, varsWeakness, achievements, unlocked, unlockReturns, newlyUnlocked,
      checkLog, varsLevels, varsAppend, varsFile, varsSession, varsCoach, varsStore,
      varsFocus,
      varsRetake,
      varsAtomic,
      varsManager,
      varsImport>>
otherThanRetake ==
    <<varsAdaptive, varsWeakness, varsBadges, varsLevels, varsAppend, varsFile, varsSession, varsCoach, varsStore, varsFocus, varsStatus,
      varsAtomic,
      varsManager,
      varsImport>>
otherThanAtomic ==
    <<varsAdaptive, varsWeakness, varsBadges, varsLevels, varsAppend, varsFile, varsSession, varsCoach, varsStore, varsFocus, varsStatus, varsRetake,
      varsManager,
      varsImport>>
otherThanManager ==
    <<varsAdaptive, varsWeakness, varsBadges, varsLevels, varsAppend, varsFile, varsSession, varsCoach, varsStore, varsFocus, varsStatus, varsRetake, varsAtomic,
      varsImport>>
otherThanImport ==
    <<varsAdaptive, varsWeakness, varsBadges, varsLevels, varsAppend, varsFile, varsSession, varsCoach, varsStore, varsFocus, varsStatus, varsRetake, varsAtomic, varsManager>>
----------------------------------------------------------------------------
(* Bounds and input sets                                                   *)

MaxAdaptiveCalls == 3      \* update_adaptive_difficulty calls explored after the prefix
AdaptivePrefix == 14       \* longest run of identical updates the store may start from
MaxAttempts == 2           \* log_attempt calls explored
AttemptPrefix == 10        \* attempts of one cell the attempts file may start from
MaxWeaknessCalls == MaxAttempts   \* update_weakness_tracking calls explored
MaxBadgeOps == 4           \* achievement operations explored
MaxLevelCalls == 3         \* complete_level calls explored
MaxAppends == 2            \* _append_to_json_file calls explored per thread
MaxFileOps == 4            \* load calls, save calls and crashes explored
MaxPractice == 4           \* practised questions explored
MaxRecommend == 2          \* get_recommendation calls explored
MaxDay == 2                \* days explored
MaxStoreOps == 4           \* operations on the store explored
MaxStoreDay == 2           \* days explored for the store
MaxFocusAnswers == 16       \* questions answered within one focus
MaxRetakeOps == 7           \* retake events explored
MaxAtomicOps == 4           \* _atomic_write calls, errors and crashes explored
MaxSaveCalls == 3           \* save_attempts calls explored
MaxImportOps == 3           \* import requests explored
MaxSessionOps == 4         \* bridge requests explored

Cells == {<<"Addition", 1>>, <<"Multiplication", 2>>}
Times == {2, 5}            \* seconds; one below and one above the 3.0 s speed threshold

----------------------------------------------------------------------------
(* json_storage.py : adaptive difficulty                                   *)

RateScale == 8 * 9 * 5 * 7   \* lcm(1..10): every rate k/n with n <= 10 is exact
WindowCap == 10
DefaultDifficulty == 100   \* 1.0
MinDifficulty == 50        \* 0.5
MaxDifficulty == 300       \* 3.0

Max2(a, b) == IF a >= b THEN a ELSE b
Min2(a, b) == IF a <= b THEN a ELSE b

\* index of the first entry of a list for (operation, digits), 0 when absent
FindEntry(data, op, d) ==
    LET hits == {i \in 1..Len(data) : data[i].operation = op /\ data[i].digits = d}
    IN  IF hits = {} THEN 0 ELSE CHOOSE i \in hits : \A j \in hits : i <= j

\* mutant: the trim keeps one sample too many
TrimWindowOffByOne(w) ==
    IF Len(w) > WindowCap + 1 THEN SubSeq(w, Len(w) - WindowCap, Len(w)) ELSE w

\* mutant: the trim keeps the oldest samples and drops the new one
TrimWindowDropsNewest(w) ==
    IF Len(w) > WindowCap THEN SubSeq(w, 1, WindowCap) ELSE w

\* recent_perf[-10:] after the append
TrimWindow(w) ==
    IF Len(w) > WindowCap THEN SubSeq(w, Len(w) - WindowCap + 1, Len(w)) ELSE w

CorrectCount(w) == Cardinality({i \in 1..Len(w) : w[i].correct})

\* recent_correct / len(recent_perf), scaled by RateScale
SuccessRate(w) == (CorrectCount(w) * RateScale) \div Len(w)

\* mutant: the fast-answer condition of the largest step is dropped
DifficultyChangeAnySpeed(rate, time_taken) ==
    IF rate * 100 > 85 * RateScale THEN 15
    ELSE IF rate * 100 > 75 * RateScale THEN 10
    ELSE IF rate * 10 < 4 * RateScale THEN -12
    ELSE IF rate * 10 < 6 * RateScale THEN -8
    ELSE 0

\* difficulty_change, scaled by DiffScale (adjustment_factor = 0.1)
DifficultyChange(rate, time_taken) ==
    IF rate * 100 > 85 * RateScale /\ time_taken < 3 THEN 15
    ELSE IF rate * 100 > 75 * RateScale THEN 10
    ELSE IF rate * 10 < 4 * RateScale THEN -12
    ELSE IF rate * 10 < 6 * RateScale THEN -8
    ELSE 0

\* mutant: the upper bound of the clamp is dropped
ClampNoCeiling(x) == Max2(MinDifficulty, x)

Clamp(x) == Max2(MinDifficulty, Min2(MaxDifficulty, x))

\* update_adaptive_difficulty(operation, digits, correct, time_taken):
\* the new contents of adaptive_difficulty.json
UpdateAdaptiveDifficulty(data, op, d, correct, time_taken) ==
    LET i == FindEntry(data, op, d)
        sample == [correct |-> correct, time_taken |-> time_taken]
    IN  IF i # 0
        THEN LET old == data[i]
                 recent_perf == TrimWindow(Append(old.recent_performance, sample))
                 new_success_rate == SuccessRate(recent_perf)
                 new_difficulty ==
                     Clamp(old.current_difficulty
                           + DifficultyChange(new_success_rate, time_taken))
             IN  [data EXCEPT ![i] =
                     [old EXCEPT !.current_difficulty = new_difficulty,
                                 !.success_rate = new_success_rate,
                                 !.total_attempts = old.total_attempts + 1,
                                 !.recent_performance = recent_perf]]
        ELSE Append(data,
                 [id |-> Len(data) + 1,
                  operation |-> op,
                  digits |-> d,
                  current_difficulty |-> DefaultDifficulty,
                  success_rate |-> IF correct THEN RateScale ELSE 0,
                  total_attempts |-> 1,
                  recent_performance |-> <<sample>>])

\* n successive identical updates of one cell, starting from the empty store
RECURSIVE RepeatUpdate(_, _, _, _)
RepeatUpdate(n, cell, correct, time_taken) ==
    IF n = 0 THEN <<>>
    ELSE UpdateAdaptiveDifficulty(RepeatUpdate(n - 1, cell, correct, time_taken),
                                  cell[1], cell[2], correct, time_taken)

\* The store starts empty (init_json_storage) or after a run of identical
\* updates of one cell, which is a state the program reaches by itself.
IdleAdaptive == adaptive = <<>> /\ adaptiveCalls = 0 /\ adaptiveUpdates = <<>>

InitAdaptive ==
    /\ adaptiveCalls = 0
    /\ \E n \in {0, AdaptivePrefix}, correct \in BOOLEAN :
          /\ adaptive = RepeatUpdate(n, <<"Addition", 1>>, correct, 2)
          /\ adaptiveUpdates = [k \in 1..n |-> <<"Addition", 1, correct, 2>>]

UpdateAdaptive(cell, correct, time_taken) ==
    /\ adaptiveCalls < MaxAdaptiveCalls
    /\ adaptiveCalls' = adaptiveCalls + 1
    /\ adaptive' = UpdateAdaptiveDifficulty(adaptive, cell[1], cell[2], correct, time_taken)
    /\ adaptiveUpdates' = Append(adaptiveUpdates, <<cell[1], cell[2], correct, time_taken>>)
    /\ UNCHANGED otherThanAdaptive

NextAdaptive ==
    \E cell \in Cells, correct \in BOOLEAN, time_taken \in Times :
        UpdateAdaptive(cell, correct, time_taken)

----------------------------------------------------------------------------
(* json_storage.py : attempts and weakness tracking                        *)

RECURSIVE SumTime(_)
SumTime(w) == IF w = <<>> THEN 0 ELSE Head(w).time_taken + SumTime(Tail(w))

RECURSIVE Reverse(_)
Reverse(w) == IF w = <<>> THEN <<>> ELSE Append(Reverse(Tail(w)), Head(w))

\* log_attempt: the attempt appended to attempts.json
LogAttemptData(data, op, d, correct, time_taken) ==
    Append(data, [id |-> Len(data) + 1,
                  operation |-> op,
                  digits |-> d,
                  correct |-> correct,
                  time_taken |-> time_taken])

\* mutant: the sort is ascending, so the oldest attempts are returned
AttemptsOldestFirst(data, op, d, limit) ==
    LET filtered == SelectSeq(data, LAMBDA a : a.operation = op /\ a.digits = d)
    IN  SubSeq(filtered, 1, Min2(limit, Len(filtered)))

\* get_attempts_by_operation_digits: the cell's attempts, newest first, at
\* most `limit` of them (timestamps grow with the position in the file)
AttemptsByOperationDigits(data, op, d, limit) ==
    LET filtered == SelectSeq(data, LAMBDA a : a.operation = op /\ a.digits = d)
        newestFirst == Reverse(filtered)
    IN  SubSeq(newestFirst, 1, Min2(limit, Len(newestFirst)))

\* mutant: a continuous score (100 - accuracy%) instead of the bands
WeaknessBandContinuous(recent_attempts) ==
    IF Len(recent_attempts) < 3
    THEN [weakness_score |-> 80, mastery_level |-> "Novice"]
    ELSE [weakness_score |->
              100 - (CorrectCount(recent_attempts) * 100) \div Len(recent_attempts),
          mastery_level |-> "Novice"]

\* the step function of update_weakness_tracking over the recent attempts
WeaknessBand(recent_attempts) ==
    IF Len(recent_attempts) < 3
    THEN [weakness_score |-> 80, mastery_level |-> "Novice"]
    ELSE LET n == Len(recent_attempts)
             recent_correct == CorrectCount(recent_attempts)
             sum_time == SumTime(recent_attempts)
         IN  IF recent_correct * 10 >= 9 * n /\ sum_time < 4 * n
             THEN [weakness_score |-> 10, mastery_level |-> "Master"]
             ELSE IF recent_correct * 10 >= 8 * n
             THEN [weakness_score |-> 30, mastery_level |-> "Pro"]
             ELSE IF recent_correct * 10 >= 6 * n
             THEN [weakness_score |-> 60, mastery_level |-> "Apprentice"]
             ELSE [weakness_score |-> 90, mastery_level |-> "Novice"]

\* mutant: an incorrect update keeps the streak instead of resetting it
UpdateWeaknessTrackingNoReset(weakness_data, attempts_data, op, d, correct) ==
    LET recent_attempts == AttemptsByOperationDigits(attempts_data, op, d, 10)
        band == WeaknessBand(recent_attempts)
        i == FindEntry(weakness_data, op, d)
        consecutive ==
            IF correct
            THEN (IF i # 0 THEN weakness_data[i].consecutive_correct + 1 ELSE 1)
            ELSE (IF i # 0 THEN weakness_data[i].consecutive_correct ELSE 0)
        all_attempts == AttemptsByOperationDigits(attempts_data, op, d, 1000)
        entry == [id |-> IF i # 0 THEN weakness_data[i].id ELSE Len(weakness_data) + 1,
                  operation |-> op,
                  digits |-> d,
                  weakness_score |-> band.weakness_score,
                  consecutive_correct |-> consecutive,
                  mastery_level |-> band.mastery_level,
                  total_attempts |-> Len(all_attempts),
                  total_correct |-> CorrectCount(all_attempts)]
    IN  IF i # 0 THEN [weakness_data EXCEPT ![i] = entry]
        ELSE Append(weakness_data, entry)

\* update_weakness_tracking(operation, digits, correct): the new contents of
\* weakness_tracking.json, given the attempts file
UpdateWeaknessTracking(weakness_data, attempts_data, op, d, correct) ==
    LET recent_attempts == AttemptsByOperationDigits(attempts_data, op, d, 10)
        band == WeaknessBand(recent_attempts)
        i == FindEntry(weakness_data, op, d)
        consecutive ==
            IF correct
            THEN (IF i # 0 THEN weakness_data[i].consecutive_correct + 1 ELSE 1)
            ELSE 0
        all_attempts == AttemptsByOperationDigits(attempts_data, op, d, 1000)
        entry == [id |-> IF i # 0 THEN weakness_data[i].id ELSE Len(weakness_data) + 1,
                  operation |-> op,
                  digits |-> d,
                  weakness_score |-> band.weakness_score,
                  consecutive_correct |-> consecutive,
                  mastery_level |-> band.mastery_level,
                  total_attempts |-> Len(all_attempts),
                  total_correct |-> CorrectCount(all_attempts)]
    IN  IF i # 0 THEN [weakness_data EXCEPT ![i] = entry]
        ELSE Append(weakness_data, entry)

IdleWeakness ==
    /\ attempts = <<>>
    /\ weakness = <<>>
    /\ weaknessCalls = 0
    /\ weaknessUpdates = <<>>

\* n successive log_attempt calls of one cell with the same outcome
RECURSIVE RepeatLogAttempt(_, _, _, _)
RepeatLogAttempt(data, n, cell, correct) ==
    IF n = 0 THEN data
    ELSE LogAttemptData(RepeatLogAttempt(data, n - 1, cell, correct),
                        cell[1], cell[2], correct, 2)

\* two wrong attempts followed by correct ones: with one more correct
\* attempt the cell has more than 10, and the 10 most recent hold 9 correct
PrefixAttempts ==
    RepeatLogAttempt(RepeatLogAttempt(<<>>, 2, <<"Addition", 1>>, FALSE),
                     AttemptPrefix - 2, <<"Addition", 1>>, TRUE)

\* The attempts file starts empty (init_json_storage) or after a run of
\* log_attempt calls, which is a state the program reaches by itself.
InitWeakness ==
    /\ attempts \in {<<>>, PrefixAttempts}
    /\ weakness = <<>>
    /\ weaknessCalls = 0
    /\ weaknessUpdates = <<>>

LogAttempt(cell, correct, time_taken) ==
    /\ \/ Len(attempts) < MaxAttempts
       \/ Len(attempts) >= AttemptPrefix /\ Len(attempts) < AttemptPrefix + MaxAttempts
    /\ attempts' = LogAttemptData(attempts, cell[1], cell[2], correct, time_taken)
    /\ UNCHANGED <<weakness, weaknessCalls, weaknessUpdates>>
    /\ UNCHANGED otherThanWeakness

UpdateWeakness(cell, correct) ==
    /\ weaknessCalls < MaxWeaknessCalls
    /\ weaknessCalls' = weaknessCalls + 1
    /\ weakness' = UpdateWeaknessTracking(weakness, attempts, cell[1], cell[2], correct)
    /\ weaknessUpdates' = Append(weaknessUpdates, <<cell[1], cell[2], correct>>)
    /\ UNCHANGED attempts
    /\ UNCHANGED otherThanWeakness

NextLogAttempt ==
    \E cell \in Cells, correct \in BOOLEAN, time_taken \in Times :
        LogAttempt(cell, correct, time_taken)

NextUpdateWeakness ==
    \E cell \in Cells, correct \in BOOLEAN : UpdateWeakness(cell, correct)

NextWeakness == NextLogAttempt \/ NextUpdateWeakness

----------------------------------------------------------------------------
(* gamification.py : AchievementManager, over json_storage achievements    *)

\* PythonBridge.achievements and MathDrillWebEngine.achievements
Managers == {"bridge", "dialog"}

\* The badges whose predicates read the session data or the attempt count,
\* in the order check_achievements tests them.  The other badges follow the
\* same `predicate and self._try_unlock(code)` pattern over aggregates of
\* the session store and the clock.
BadgeOrder == <<"first_win", "sniper", "no_mistakes">>
BadgeCodes == {BadgeOrder[i] : i \in 1..Len(BadgeOrder)}

SessionData == {[total |-> t, correct |-> c] : t \in {10, 20}, c \in {9, 10, 20}}

\* get_achievement_codes
AchievementCodes(store) == {store[i].code : i \in 1..Len(store)}

\* mutant: the already-unlocked check of the store is skipped
UnlockAchievementNoCheck(store, code) ==
    <<TRUE, Append(store, [id |-> Len(store) + 1, code |-> code])>>

\* json_storage.unlock_achievement: <<returned value, new achievements.json>>
UnlockAchievement(store, code) ==
    IF \E i \in 1..Len(store) : store[i].code = code
    THEN <<FALSE, store>>
    ELSE <<TRUE, Append(store, [id |-> Len(store) + 1, code |-> code])>>

\* AchievementManager._try_unlock on the state st = [store, unlocked, log, newly]
\* of one manager; log collects the returned values per code
TryUnlock(st, code) ==
    IF code \notin st.unlocked
    THEN LET r == UnlockAchievement(st.store, code)
         IN  IF r[1]
             THEN [store |-> r[2],
                   unlocked |-> st.unlocked \cup {code},
                   log |-> [st.log EXCEPT ![code] = Append(@, TRUE)],
                   newly |-> Append(st.newly, code)]
             ELSE [st EXCEPT !.log[code] = Append(@, FALSE)]
    ELSE [st EXCEPT !.log[code] = Append(@, FALSE)]

\* mutant: the sniper badge no longer asks for 20 questions
BadgePredicateAnyLength(code, session_data, total_attempts) ==
    CASE code = "first_win" -> total_attempts >= 1
      [] code = "sniper" -> session_data.correct = session_data.total
      [] code = "no_mistakes" ->
            session_data.total - session_data.correct = 0 /\ session_data.total >= 10

\* the predicate check_achievements tests before it tries a badge
BadgePredicate(code, session_data, total_attempts) ==
    CASE code = "first_win" -> total_attempts >= 1
      [] code = "sniper" ->
            session_data.total >= 20 /\ session_data.correct = session_data.total
      [] code = "no_mistakes" ->
            session_data.total - session_data.correct = 0 /\ session_data.total >= 10

\* check_achievements from the k-th badge on
RECURSIVE CheckFrom(_, _, _, _)
CheckFrom(k, st, session_data, total_attempts) ==
    IF k > Len(BadgeOrder) THEN st
    ELSE CheckFrom(k + 1,
                   IF BadgePredicate(BadgeOrder[k], session_data, total_attempts)
                   THEN TryUnlock(st, BadgeOrder[k])
                   ELSE st,
                   session_data, total_attempts)

ManagerState(m) ==
    [store |-> achievements, unlocked |-> unlocked[m],
     log |-> unlockReturns, newly |-> <<>>]

IdleBadges ==
    /\ achievements = <<>>
    /\ unlocked = [m \in Managers |-> {}]
    /\ unlockReturns = [c \in BadgeCodes |-> <<>>]
    /\ newlyUnlocked = <<>>
    /\ checkLog = <<>>
    /\ badgeOps = 0

\* Both managers are constructed at start-up over the empty store; the
\* attempts file is empty or holds one attempt.
InitBadges ==
    /\ IdleBadges
    /\ attempts \in {<<>>, LogAttemptData(<<>>, "Addition", 1, TRUE, 2)}
    /\ weakness = <<>> /\ weaknessCalls = 0 /\ weaknessUpdates = <<>>

\* AchievementManager.__init__
NewManager(m) ==
    /\ badgeOps < MaxBadgeOps
    /\ badgeOps' = badgeOps + 1
    /\ unlocked' = [unlocked EXCEPT ![m] = AchievementCodes(achievements)]
    /\ UNCHANGED <<achievements, unlockReturns, newlyUnlocked, checkLog>>
    /\ UNCHANGED otherThanBadges

\* a direct AchievementManager._try_unlock(code)
TryUnlockCall(m, code) ==
    /\ badgeOps < MaxBadgeOps
    /\ badgeOps' = badgeOps + 1
    /\ LET st == TryUnlock(ManagerState(m), code)
       IN  /\ achievements' = st.store
           /\ unlocked' = [unlocked EXCEPT ![m] = st.unlocked]
           /\ unlockReturns' = st.log
    /\ checkLog' = Append(checkLog, [direct |-> code, total |-> 0, correct |-> 0,
                                     newly |-> <<>>])
    /\ UNCHANGED newlyUnlocked
    /\ UNCHANGED otherThanBadges

\* AchievementManager.check_achievements(session_data)
CheckAchievements(m, session_data) ==
    /\ badgeOps < MaxBadgeOps
    /\ badgeOps' = badgeOps + 1
    /\ LET st == CheckFrom(1, ManagerState(m), session_data, Len(attempts))
       IN  /\ achievements' = st.store
           /\ unlocked' = [unlocked EXCEPT ![m] = st.unlocked]
           /\ unlockReturns' = st.log
           /\ newlyUnlocked' = st.newly
           /\ checkLog' = Append(checkLog, [direct |-> "None",
                                            total |-> session_data.total,
                                            correct |-> session_data.correct,
                                            newly |-> st.newly])
    /\ UNCHANGED otherThanBadges

NextNewManager == \E m \in Managers : NewManager(m)

\* AchievementManager.get_all_badges_status: per code, `code in self.unlocked`
GetAllBadgesStatus(manager_unlocked) == [c \in BadgeCodes |-> c \in manager_unlocked]

NoBadgeStatus == [asked |-> FALSE, view |-> [c \in BadgeCodes |-> FALSE], stored |-> {}]

IdleStatus == badgeStatus = NoBadgeStatus

\* PythonBridge.get_achievements: the status list of the bridge's own manager
GetAchievements ==
    /\ badgeOps < MaxBadgeOps
    /\ badgeOps' = badgeOps + 1
    /\ badgeStatus' = [asked |-> TRUE, view |-> GetAllBadgesStatus(unlocked["bridge"]),
                       stored |-> AchievementCodes(achievements)]
    /\ UNCHANGED otherThanStatus

NextTryUnlock == \E m \in Managers, code \in BadgeCodes : TryUnlockCall(m, code)

NextCheckAchievements ==
    \E m \in Managers, sd \in SessionData :
        sd.correct <= sd.total /\ CheckAchievements(m, sd)

NextBadges == NextNewManager \/ NextTryUnlock \/ NextCheckAchievements

\* the badge traffic of the web front end: end_session checks through the
\* dialog's manager, get_achievements asks the bridge's
NextDialogCheck == \E session_data \in SessionData : CheckAchievements("dialog", session_data)
NextStatus == NextDialogCheck \/ GetAchievements \/ NextNewManager

----------------------------------------------------------------------------
(* levels_manager.py : LevelsManager                                       *)

\* The static level definitions (data/static/level_data.json).  A condition
\* is kept as condition.split('_'); timeLimit 0 stands for None.  Levels 3
\* and 7 carry the condition generate_levels.py writes.
LevelDefs ==
    << [id |-> 1, minCorrect |-> 8, timeLimit |-> 0,
        unlockCondition |-> <<"none">>],
       [id |-> 2, minCorrect |-> 8, timeLimit |-> 30,
        unlockCondition |-> <<"total", "stars", "2">>],
       [id |-> 3, minCorrect |-> 8, timeLimit |-> 0,
        unlockCondition |-> <<"complete", "level", "1", "total", "stars", "1">>],
       [id |-> 4, minCorrect |-> 8, timeLimit |-> 0,
        unlockCondition |-> <<"total", "stars", "x">>],
       [id |-> 5, minCorrect |-> 8, timeLimit |-> 0,
        unlockCondition |-> <<"complete", "level", "2", "3">>],
       [id |-> 6, minCorrect |-> 8, timeLimit |-> 0,
        unlockCondition |-> <<"complete", "level", "1", "stars", "x">>],
       [id |-> 7, minCorrect |-> 8, timeLimit |-> 0,
        unlockCondition |-> <<"complete", "level", "3", "total", "stars", "1">>] >>

LevelIds == {LevelDefs[i].id : i \in 1..Len(LevelDefs)}

\* The results submitted to each level: <<correct_answers, total_questions,
\* time_taken>>.  totalQuestions and timeTaken default to 0 in
\* Bridge._handle_complete_level.
LevelResults(id) ==
    CASE id = 1 -> {<<5, 10>>, <<7, 10>>, <<8, 10>>, <<14, 15>>, <<10, 10>>,
                    <<99, 100>>, <<100, 101>>, <<8, 0>>} \X {0, 20, 40}
      [] id = 2 -> {<<8, 10>>, <<14, 15>>, <<10, 10>>} \X {20, 40}
      [] id = 3 -> {<<10, 10>>} \X {20}
      [] OTHER -> {}

EmptyMap == [x \in {} |-> 0]

\* int(token): the tokens that parse, and their values
IntTokens == {"0", "1", "2", "3"}
IntOf(tok) == CASE tok = "0" -> 0 [] tok = "1" -> 1 [] tok = "2" -> 2 [] tok = "3" -> 3

\* condition.startswith(prefix + '_') on the split condition
StartsWith(parts, prefix) ==
    /\ Len(parts) > Len(prefix)
    /\ SubSeq(parts, 1, Len(prefix)) = prefix

\* parts.index('stars'), 0 when 'stars' is not in parts
IndexOfStars(parts) ==
    LET hits == {k \in 1..Len(parts) : parts[k] = "stars"}
    IN  IF hits = {} THEN 0 ELSE CHOOSE k \in hits : \A j \in hits : k <= j

\* accuracy = correct / total * 100 as the fraction <<numerator, denominator>>
Accuracy(correct, total) == IF total > 0 THEN <<correct * 100, total>> ELSE <<0, 1>>

AccGT(a, b) == a[1] * b[2] > b[1] * a[2]
AccEQ(a, b) == a[1] * b[2] = b[1] * a[2]
AccAtLeast(a, n) == a[1] >= n * a[2]
\* abs(a - b) < 0.01
AccWithinEpsilon(a, b) ==
    LET d == a[1] * b[2] - b[1] * a[2]
    IN  (IF d >= 0 THEN d ELSE -d) * 100 < a[2] * b[2]

RECURSIVE SumStars(_, _)
SumStars(comps, ids) ==
    IF ids = {} THEN 0
    ELSE LET x == CHOOSE y \in ids : TRUE
         IN  comps[x].starsEarned + SumStars(comps, ids \ {x})

\* mutant: the completion records are counted instead of their stars
TotalStarsCountsRecords(comps) == Cardinality(DOMAIN comps)

\* sum(c.get('starsEarned', 0) for c in self.completions.values())
TotalStars(comps) == SumStars(comps, DOMAIN comps)

\* _check_unlock_condition(level, total_stars)
CheckUnlockCondition(comps, level, total_stars) ==
    LET parts == level.unlockCondition
        legacy ==
            IF StartsWith(parts, <<"complete", "level">>) /\ parts[3] \in IntTokens
            THEN LET req_id == IntOf(parts[3])
                     idx == IndexOfStars(parts)
                     \* <<parsed, req_stars>>
                     req == IF idx # 0
                            THEN (IF Len(parts) > idx
                                  THEN (IF parts[idx + 1] \in IntTokens
                                        THEN <<TRUE, IntOf(parts[idx + 1])>>
                                        ELSE <<FALSE, 0>>)
                                  ELSE <<TRUE, 1>>)
                            ELSE IF Len(parts) > 3 /\ parts[Len(parts)] \in IntTokens
                                 THEN <<TRUE, IntOf(parts[Len(parts)])>>
                                 ELSE <<TRUE, 1>>
                 IN  /\ req[1]
                     /\ req_id \in DOMAIN comps
                     /\ comps[req_id].starsEarned >= req[2]
            ELSE FALSE
    IN  IF parts = <<"none">> THEN TRUE
        ELSE IF StartsWith(parts, <<"total", "stars">>) /\ parts[3] \in IntTokens
        THEN total_stars >= IntOf(parts[3])
        ELSE legacy

\* _enrich_level_data(level, total_stars)
EnrichLevelData(comps, level, total_stars) ==
    [id |-> level.id,
     isCompleted |-> level.id \in DOMAIN comps,
     starsEarned |-> IF level.id \in DOMAIN comps THEN comps[level.id].starsEarned ELSE 0,
     isLocked |-> ~CheckUnlockCondition(comps, level, total_stars)]

\* get_all_levels()
GetAllLevels(comps) ==
    [i \in 1..Len(LevelDefs) |-> EnrichLevelData(comps, LevelDefs[i], TotalStars(comps))]

\* the static definition get_level(level_id) enriches
LevelById(id) == LevelDefs[CHOOSE i \in 1..Len(LevelDefs) : LevelDefs[i].id = id]

\* mutant: the time demotion is not floored at one star
CalculateStatsNoFloor(level, correct, total, time) ==
    LET passed == correct >= level.minCorrect
        accuracy == Accuracy(correct, total)
        base == IF AccAtLeast(accuracy, 98) THEN 3
                ELSE IF AccAtLeast(accuracy, 93) THEN 2 ELSE 1
        stars == IF ~passed THEN 0
                 ELSE IF level.timeLimit # 0 /\ time > level.timeLimit
                      THEN base - 1
                      ELSE base
    IN  [passed_requirements |-> passed, stars |-> stars, accuracy |-> accuracy,
         time |-> time, correct |-> correct, total |-> total]

\* _calculate_stats(level, correct, total, time)
CalculateStats(level, correct, total, time) ==
    LET passed == correct >= level.minCorrect
        accuracy == Accuracy(correct, total)
        base == IF AccAtLeast(accuracy, 98) THEN 3
                ELSE IF AccAtLeast(accuracy, 93) THEN 2 ELSE 1
        stars == IF ~passed THEN 0
                 ELSE IF level.timeLimit # 0 /\ time > level.timeLimit
                      THEN Max2(1, base - 1)
                      ELSE base
    IN  [passed_requirements |-> passed, stars |-> stars, accuracy |-> accuracy,
         time |-> time, correct |-> correct, total |-> total]

\* mutant: a tie in stars and accuracy overwrites whatever the times are
IsBetterTieOverwrites(old, new) ==
    IF new.stars > old.starsEarned THEN TRUE
    ELSE IF new.stars = old.starsEarned
         THEN AccGT(new.accuracy, old.bestAccuracy)
              \/ AccWithinEpsilon(new.accuracy, old.bestAccuracy)
         ELSE FALSE

\* mutant: equal stars overwrite, whatever the accuracy and the time
IsBetterOnEqualStars(old, new) == new.stars >= old.starsEarned

\* _should_save_result(level_id, new): should_save (= is_new_record) when a
\* record exists; the first attempt is saved unconditionally
IsBetter(old, new) ==
    IF new.stars > old.starsEarned THEN TRUE
    ELSE IF new.stars = old.starsEarned
         THEN IF AccGT(new.accuracy, old.bestAccuracy) THEN TRUE
              ELSE IF AccWithinEpsilon(new.accuracy, old.bestAccuracy)
                   THEN old.bestTime = 0 \/ new.time < old.bestTime
                   ELSE FALSE
         ELSE FALSE

\* mutant: a failed first attempt is not saved
ShouldSaveOnlyPassedFirst(comps, level_id, new) ==
    IF level_id \notin DOMAIN comps THEN new.passed_requirements
    ELSE IsBetter(comps[level_id], new)

ShouldSaveResult(comps, level_id, new) ==
    IF level_id \notin DOMAIN comps THEN TRUE ELSE IsBetter(comps[level_id], new)

\* mutant: the completion map is rebuilt from the new entry alone
SaveLevelResultAlone(comps, level_id, stats, is_new_record) ==
    LET entry == [levelId |-> level_id,
                  starsEarned |-> stats.stars,
                  correctAnswers |-> stats.correct,
                  totalQuestions |-> stats.total,
                  bestAccuracy |-> stats.accuracy,
                  bestTime |-> stats.time,
                  isNewRecord |-> is_new_record]
    IN  [x \in {level_id} |-> entry]

\* _save_level_result(level_id, stats, is_new_record)
SaveLevelResult(comps, level_id, stats, is_new_record) ==
    LET entry == [levelId |-> level_id,
                  starsEarned |-> stats.stars,
                  correctAnswers |-> stats.correct,
                  totalQuestions |-> stats.total,
                  bestAccuracy |-> stats.accuracy,
                  bestTime |-> stats.time,
                  isNewRecord |-> is_new_record]
    IN  [x \in DOMAIN comps \cup {level_id} |->
            IF x = level_id THEN entry ELSE comps[x]]

NoLevelResult ==
    [levelId |-> 0, correct |-> 0, total |-> 0, time |-> 0,
     success |-> FALSE, starsEarned |-> 0, isNewRecord |-> FALSE]

IdleLevels ==
    /\ completions = EmptyMap
    /\ levelResult = NoLevelResult
    /\ submitted = [l \in LevelIds |-> {}]
    /\ levelCalls = 0

\* complete_level(level_id, correct_answers, total_questions, time_taken)
CompleteLevel(level_id, correct, total, time) ==
    /\ levelCalls < MaxLevelCalls
    /\ levelCalls' = levelCalls + 1
    /\ LET level == LevelById(level_id)
           stats == CalculateStats(level, correct, total, time)
           should_save == ShouldSaveResult(completions, level_id, stats)
       IN  /\ completions' = IF should_save
                             THEN SaveLevelResult(completions, level_id, stats, should_save)
                             ELSE completions
           /\ levelResult' = [levelId |-> level_id, correct |-> correct,
                              total |-> total, time |-> time,
                              success |-> stats.passed_requirements,
                              starsEarned |-> stats.stars,
                              isNewRecord |-> should_save]
    /\ submitted' = [submitted EXCEPT ![level_id] = @ \cup {<<correct, total, time>>}]
    /\ UNCHANGED otherThanLevels

NextLevels ==
    \E level_id \in LevelIds :
        \E r \in LevelResults(level_id) : CompleteLevel(level_id, r[1][1], r[1][2], r[2])

----------------------------------------------------------------------------
(* json_storage.py : _append_to_json_file under threads                    *)

\* the interactive handler and a background thread
Threads == {"handler", "worker"}

IdleAppend ==
    /\ jsonFile = <<>>
    /\ fileLock = "free"
    /\ pc = [t \in Threads |-> "idle"]
    /\ loaded = [t \in Threads |-> <<>>]
    /\ newItem = [t \in Threads |-> <<t, 0>>]
    /\ appendCalls = [t \in Threads |-> 0]
    /\ appended = {}

\* _append_to_json_file(file_path, item) is entered
AppendCall(t) ==
    /\ pc[t] = "idle"
    /\ appendCalls[t] < MaxAppends
    /\ appendCalls' = [appendCalls EXCEPT ![t] = @ + 1]
    /\ newItem' = [newItem EXCEPT ![t] = <<t, appendCalls[t] + 1>>]
    /\ pc' = [pc EXCEPT ![t] = "load"]
    /\ UNCHANGED <<jsonFile, fileLock, loaded, appended>>
    /\ UNCHANGED otherThanAppend

\* _load_json_file: with _file_lock
LoadAcquire(t) ==
    /\ pc[t] = "load"
    /\ fileLock = "free"
    /\ fileLock' = t
    /\ pc' = [pc EXCEPT ![t] = "load_locked"]
    /\ UNCHANGED <<jsonFile, loaded, newItem, appendCalls, appended>>
    /\ UNCHANGED otherThanAppend

\* _load_json_file: json.load(f), and the lock is released on return
LoadRead(t) ==
    /\ pc[t] = "load_locked"
    /\ loaded' = [loaded EXCEPT ![t] = jsonFile]
    /\ fileLock' = "free"
    /\ pc' = [pc EXCEPT ![t] = "append"]
    /\ UNCHANGED <<jsonFile, newItem, appendCalls, appended>>
    /\ UNCHANGED otherThanAppend

\* data.append(item), outside the lock
AppendItem(t) ==
    /\ pc[t] = "append"
    /\ loaded' = [loaded EXCEPT ![t] = Append(@, newItem[t])]
    /\ pc' = [pc EXCEPT ![t] = "save"]
    /\ UNCHANGED <<jsonFile, fileLock, newItem, appendCalls, appended>>
    /\ UNCHANGED otherThanAppend

\* _save_json_file: with _file_lock
SaveAcquire(t) ==
    /\ pc[t] = "save"
    /\ fileLock = "free"
    /\ fileLock' = t
    /\ pc' = [pc EXCEPT ![t] = "save_locked"]
    /\ UNCHANGED <<jsonFile, loaded, newItem, appendCalls, appended>>
    /\ UNCHANGED otherThanAppend

\* _save_json_file: json.dump(data, f), and the lock is released on return
SaveWrite(t) ==
    /\ pc[t] = "save_locked"
    /\ jsonFile' = loaded[t]
    /\ fileLock' = "free"
    /\ pc' = [pc EXCEPT ![t] = "verify"]
    /\ UNCHANGED <<loaded, newItem, appendCalls, appended>>
    /\ UNCHANGED otherThanAppend

\* the verification _load_json_file: with _file_lock
VerifyAcquire(t) ==
    /\ pc[t] = "verify"
    /\ fileLock = "free"
    /\ fileLock' = t
    /\ pc' = [pc EXCEPT ![t] = "verify_locked"]
    /\ UNCHANGED <<jsonFile, loaded, newItem, appendCalls, appended>>
    /\ UNCHANGED otherThanAppend

\* the verification load only prints the count; the call returns True
VerifyRead(t) ==
    /\ pc[t] = "verify_locked"
    /\ fileLock' = "free"
    /\ appended' = appended \cup {newItem[t]}
    /\ pc' = [pc EXCEPT ![t] = "idle"]
    /\ UNCHANGED <<jsonFile, loaded, newItem, appendCalls>>
    /\ UNCHANGED otherThanAppend

NextAppendCall == \E t \in Threads : AppendCall(t)
NextLoadAcquire == \E t \in Threads : LoadAcquire(t)
NextLoadRead == \E t \in Threads : LoadRead(t)
NextAppendItem == \E t \in Threads : AppendItem(t)
NextSaveAcquire == \E t \in Threads : SaveAcquire(t)
NextSaveWrite == \E t \in Threads : SaveWrite(t)
NextVerifyAcquire == \E t \in Threads : VerifyAcquire(t)
NextVerifyRead == \E t \in Threads : VerifyRead(t)

NextAppend ==
    \/ NextAppendCall
    \/ NextLoadAcquire
    \/ NextLoadRead
    \/ NextAppendItem
    \/ NextSaveAcquire
    \/ NextSaveWrite
    \/ NextVerifyAcquire
    \/ NextVerifyRead

----------------------------------------------------------------------------
(* json_storage.py : _load_json_file and _save_json_file on the disk       *)

\* The text of a JSON array file as the sequence of its tokens; json.dump
\* writes it to the opened file piece by piece.
Text(list) == <<"[">> \o list \o <<"]">>

\* the file does not exist (os.path.exists is False)
MissingFile == <<"missing">>

\* the lists a caller saves
FileItems == {"a", "b"}
FileLists == {<<>>} \cup {<<x>> : x \in FileItems} \cup {<<x, y>> : x, y \in FileItems}

\* json.load accepts the text
IsValidJson(text) ==
    /\ text # MissingFile
    /\ Len(text) >= 2
    /\ text[1] = "[" /\ text[Len(text)] = "]"
    /\ \A i \in 2..(Len(text) - 1) : text[i] \notin {"[", "]"}

\* json.load(f) of a valid text
ParseJson(text) == SubSeq(text, 2, Len(text) - 1)

NoLoadResult == <<"none">>

IdleFile ==
    /\ diskText = Text(<<>>)
    /\ filePc = "idle"
    /\ saveData = <<>>
    /\ diskBefore = Text(<<>>)
    /\ loadResult = NoLoadResult
    /\ fileOps = 0

\* the file is there (init_json_storage wrote it) or has been removed
InitFile ==
    /\ diskText \in {Text(<<>>), MissingFile}
    /\ filePc = "idle"
    /\ saveData = <<>>
    /\ diskBefore = diskText
    /\ loadResult = NoLoadResult
    /\ fileOps = 0

\* _load_json_file(file_path, []) is called
LoadCall ==
    /\ filePc = "idle"
    /\ fileOps < MaxFileOps
    /\ fileOps' = fileOps + 1
    /\ filePc' = "load"
    /\ UNCHANGED <<diskText, saveData, diskBefore, loadResult, fileLock>>
    /\ UNCHANGED otherThanFile

\* _load_json_file: with _file_lock
LoadLock ==
    /\ filePc = "load"
    /\ fileLock = "free"
    /\ fileLock' = "handler"
    /\ filePc' = "load_locked"
    /\ UNCHANGED <<diskText, saveData, diskBefore, loadResult, fileOps>>
    /\ UNCHANGED otherThanFile

\* os.path.exists holds: json.load returns the list, or raises
\* JSONDecodeError, which leaves the with block and returns the default
LoadExisting ==
    /\ filePc = "load_locked"
    /\ diskText # MissingFile
    /\ loadResult' = IF IsValidJson(diskText) THEN ParseJson(diskText) ELSE <<>>
    /\ fileLock' = "free"
    /\ filePc' = "idle"
    /\ UNCHANGED <<diskText, saveData, diskBefore, fileOps>>
    /\ UNCHANGED otherThanFile

\* the file is missing: _save_json_file(file_path, default) is called with
\* _file_lock still held
LoadMissing ==
    /\ filePc = "load_locked"
    /\ diskText = MissingFile
    /\ saveData' = <<>>
    /\ filePc' = "load_create"
    /\ UNCHANGED <<diskText, diskBefore, loadResult, fileOps, fileLock>>
    /\ UNCHANGED otherThanFile

\* _save_json_file(file_path, data) is called
SaveCall(list) ==
    /\ filePc = "idle"
    /\ fileOps < MaxFileOps
    /\ fileOps' = fileOps + 1
    /\ saveData' = list
    /\ filePc' = "save"
    /\ UNCHANGED <<diskText, diskBefore, loadResult, fileLock>>
    /\ UNCHANGED otherThanFile

\* _save_json_file: with _file_lock (threading.Lock is not reentrant)
SaveLock ==
    /\ filePc \in {"save", "load_create"}
    /\ fileLock = "free"
    /\ fileLock' = "handler"
    /\ filePc' = IF filePc = "save" THEN "save_locked" ELSE "create_locked"
    /\ UNCHANGED <<diskText, saveData, diskBefore, loadResult, fileOps>>
    /\ UNCHANGED otherThanFile

\* open(file_path, 'w') creates or truncates the file
SaveOpen ==
    /\ filePc \in {"save_locked", "create_locked"}
    /\ diskBefore' = diskText
    /\ diskText' = <<>>
    /\ filePc' = IF filePc = "save_locked" THEN "save_writing" ELSE "create_writing"
    /\ UNCHANGED <<saveData, loadResult, fileOps, fileLock>>
    /\ UNCHANGED otherThanFile

\* json.dump writes the next piece of the text
SaveWriteChunk ==
    /\ filePc \in {"save_writing", "create_writing"}
    /\ Len(diskText) < Len(Text(saveData))
    /\ diskText' = Append(diskText, Text(saveData)[Len(diskText) + 1])
    /\ UNCHANGED <<filePc, saveData, diskBefore, loadResult, fileOps, fileLock>>
    /\ UNCHANGED otherThanFile

\* the file is closed, the lock released and True returned
SaveClose ==
    /\ filePc = "save_writing"
    /\ diskText = Text(saveData)
    /\ fileLock' = "free"
    /\ filePc' = "idle"
    /\ UNCHANGED <<diskText, saveData, diskBefore, loadResult, fileOps>>
    /\ UNCHANGED otherThanFile

\* the process is killed inside a call; the lock dies with it
Crash ==
    /\ filePc \notin {"idle", "crashed"}
    /\ fileOps < MaxFileOps
    /\ fileOps' = fileOps + 1
    /\ filePc' = "crashed"
    /\ fileLock' = "free"
    /\ UNCHANGED <<diskText, saveData, diskBefore, loadResult>>
    /\ UNCHANGED otherThanFile

\* the add-on is started again over the files on disk
Restart ==
    /\ filePc = "crashed"
    /\ filePc' = "idle"
    /\ UNCHANGED <<diskText, saveData, diskBefore, loadResult, fileOps, fileLock>>
    /\ UNCHANGED otherThanFile

NextSaveCall == \E list \in FileLists : SaveCall(list)

NextFile ==
    \/ LoadCall
    \/ LoadLock
    \/ LoadExisting
    \/ LoadMissing
    \/ NextSaveCall
    \/ SaveLock
    \/ SaveOpen
    \/ SaveWriteChunk
    \/ SaveClose
    \/ Crash
    \/ Restart

----------------------------------------------------------------------------
(* main_webengine.py : the session requests of the bridge                  *)

SessionModes == {"Free Play", "Level"}

\* The request payloads.  defect names what is wrong with a payload: a
\* missing key reads as None (data.get) or raises KeyError (data[...]), an
\* ill-typed total is a string.  A log_attempt payload without a time is
\* explored in level sessions, where the handler stops at
\* session_stats['total_time'] += time_taken.
AttemptPayloads ==
    {[operation |-> "Addition", digits |-> 1, correct |-> c, time |-> 2, defect |-> d] :
        c \in BOOLEAN, d \in {"none", "missing_operation", "missing_time"}}

EndPayloads ==
    {[total |-> 10, correct |-> c, totalTime |-> 20, defect |-> d] :
        c \in {7, 10}, d \in {"none", "missing_correct", "illtyped_total"}}

\* which engine raises inside end_session
Raises == {"none", "level", "badges"}

\* the stored form of a None operation and of an ill-typed total
NoneOperation == "None"
IllTypedTotal == 0 - 1

\* levels.LevelManager._load_levels: the generated level 1
SessionLevel ==
    [id |-> 1, questions |-> 10, time_limit |-> 0, min_accuracy |-> 80,
     min_accuracy_3 |-> 100, max_time_3 |-> 0, min_accuracy_2 |-> 90, max_time_2 |-> 0]

\* json_storage.log_session(mode, operation, digits, target, 0, 0, 0.0)
LogSession(sess, mode) ==
    Append(sess, [id |-> Len(sess) + 1, mode |-> mode,
                  total_attempts |-> 0, correct_count |-> 0, avg_speed |-> 0])

\* DatabaseAPI.update_session(session_id, correct=, total=)
UpdateSession(sess, sid, total, correct) ==
    [i \in 1..Len(sess) |->
        IF sess[i].id = sid
        THEN [sess[i] EXCEPT !.total_attempts = total, !.correct_count = correct]
        ELSE sess[i]]

\* mutant: a passed level always stores the stars of this run
LevelManagerCompleteOverwrites(progress, level, total, correct, total_time) ==
    LET passed == /\ total >= level.questions
                  /\ correct * 100 >= level.min_accuracy * total
                  /\ (level.time_limit = 0 \/ total_time <= level.time_limit)
        stars == IF correct = total THEN 3 ELSE 1
    IN  IF ~passed
        THEN [success |-> FALSE, stars |-> 0, progress |-> progress]
        ELSE [success |-> TRUE, stars |-> stars,
              progress |-> [l \in DOMAIN progress \cup {level.id} |->
                               IF l = level.id THEN stars ELSE progress[l]]]

\* levels.LevelManager.complete_level(level_id, session_stats) with
\* questions = total and accuracy = correct / total * 100
LevelManagerComplete(progress, level, total, correct, total_time) ==
    LET accuracy == Accuracy(correct, total)
        failed ==
            \/ total < level.questions
            \/ ~AccAtLeast(accuracy, level.min_accuracy)
            \/ level.time_limit > 0 /\ total_time > level.time_limit
        stars ==
            IF AccAtLeast(accuracy, level.min_accuracy_3)
               /\ (level.max_time_3 = 0 \/ total_time <= level.max_time_3)
            THEN 3
            ELSE IF AccAtLeast(accuracy, level.min_accuracy_2)
                    /\ (level.max_time_2 = 0 \/ total_time <= level.max_time_2)
            THEN 2
            ELSE 1
        current_stars == IF level.id \in DOMAIN progress THEN progress[level.id] ELSE 0
    IN  IF failed
        THEN [success |-> FALSE, stars |-> 0, progress |-> progress]
        ELSE [success |-> TRUE, stars |-> stars,
              progress |-> IF stars > current_stars
                           THEN [l \in DOMAIN progress \cup {level.id} |->
                                    IF l = level.id THEN stars ELSE progress[l]]
                           ELSE progress]

NoSessionStats ==
    [level_id |-> 0, questions_answered |-> 0, correct_answers |-> 0, total_time |-> 0]

NoCall ==
    [op |-> "none", defect |-> "none", raised |-> "none", status |-> "none",
     sid |-> 0, newBadges |-> <<>>, levelStars |-> 0,
     total |-> 0, correct |-> 0, totalTime |-> 0, level |-> 0]

IdleSession ==
    /\ sessions = <<>>
    /\ currentSessionId = 0
    /\ sessionActive = FALSE
    /\ sessionMode = "Free Play"
    /\ activeLevelId = 0
    /\ sessionStats = NoSessionStats
    /\ levelProgress = EmptyMap
    /\ lastCall = NoCall
    /\ sessionOps = 0

\* PythonBridge.start_session(data) and MathDrillWebEngine.start_session
StartSession(mode) ==
    /\ sessionOps < MaxSessionOps
    /\ sessionOps' = sessionOps + 1
    /\ sessionMode' = mode
    /\ sessionActive' = TRUE
    /\ sessions' = LogSession(sessions, mode)
    /\ currentSessionId' = Len(sessions) + 1
    /\ activeLevelId' = IF mode = "Level" THEN SessionLevel.id ELSE activeLevelId
    /\ sessionStats' = IF mode = "Level"
                       THEN [NoSessionStats EXCEPT !.level_id = SessionLevel.id]
                       ELSE sessionStats
    /\ lastCall' = [NoCall EXCEPT !.op = "start_session", !.status = "success",
                                  !.sid = Len(sessions) + 1]
    /\ UNCHANGED <<levelProgress, varsBadges, attempts, adaptive, adaptiveUpdates, weakness,
                   weaknessUpdates>>
    /\ UNCHANGED otherThanSession

\* PythonBridge.log_attempt(data).  The daily goals file is left as
\* init_json_storage wrote it ({}), so update_daily_progress changes nothing.
BridgeLogAttempt(data) ==
    /\ sessionOps < MaxSessionOps
    /\ Len(attempts) < MaxAttempts
    /\ data.defect = "missing_time" => sessionStats.level_id # 0
    /\ sessionOps' = sessionOps + 1
    /\ LET operation == IF data.defect = "missing_operation"
                        THEN NoneOperation ELSE data.operation
           inLevel == sessionStats.level_id # 0
           \* questions_answered and correct_answers are bumped before
           \* total_time += time_taken raises TypeError on None
           counted == [sessionStats EXCEPT
                          !.questions_answered = @ + 1,
                          !.correct_answers = IF data.correct THEN @ + 1 ELSE @]
           aborted == inLevel /\ data.defect = "missing_time"
       IN  /\ sessionStats' =
                 IF ~inLevel THEN sessionStats
                 ELSE IF aborted THEN counted
                 ELSE [counted EXCEPT !.total_time = @ + data.time]
           /\ IF aborted
              THEN /\ UNCHANGED <<attempts, adaptive, adaptiveUpdates, weakness, weaknessUpdates>>
                   /\ lastCall' = [NoCall EXCEPT !.op = "log_attempt",
                                                 !.defect = data.defect,
                                                 !.sid = currentSessionId]
              ELSE /\ attempts' = LogAttemptData(attempts, operation, data.digits,
                                                 data.correct, data.time)
                   /\ adaptive' = UpdateAdaptiveDifficulty(adaptive, operation,
                                      data.digits, data.correct, data.time)
                   /\ adaptiveUpdates' = Append(adaptiveUpdates,
                                      <<operation, data.digits, data.correct, data.time>>)
                   /\ weakness' = UpdateWeaknessTracking(weakness, attempts',
                                      operation, data.digits, data.correct)
                   /\ weaknessUpdates' = Append(weaknessUpdates,
                                      <<operation, data.digits, data.correct>>)
                   /\ lastCall' = [NoCall EXCEPT !.op = "log_attempt",
                                                 !.defect = data.defect,
                                                 !.status = "success",
                                                 !.sid = currentSessionId]
    /\ UNCHANGED <<sessions, currentSessionId, sessionActive, sessionMode,
                   activeLevelId, levelProgress, varsBadges>>
    /\ UNCHANGED otherThanSession

\* MathDrill.check_answer of the widget window (main.py): the attempt is
\* logged through database.log_attempt and nothing else is written
CheckAnswer(cell, correct, time_taken) ==
    /\ sessionOps < MaxSessionOps
    /\ Len(attempts) < MaxAttempts
    /\ sessionOps' = sessionOps + 1
    /\ attempts' = LogAttemptData(attempts, cell[1], cell[2], correct, time_taken)
    /\ lastCall' = [NoCall EXCEPT !.op = "check_answer", !.status = "success"]
    /\ UNCHANGED <<sessions, currentSessionId, sessionActive, sessionMode,
                   activeLevelId, sessionStats, levelProgress, varsBadges,
                   adaptive, adaptiveUpdates, weakness, weaknessUpdates>>
    /\ UNCHANGED otherThanSession

\* data.get('mode') == 'Level' and (active_level_id or session_stats level_id);
\* the payload carries the mode the session was started with
IsLevelSession ==
    sessionMode = "Level" /\ (activeLevelId # 0 \/ sessionStats.level_id # 0)

\* MathDrillWebEngine.end_session(data): what the try block has done when it
\* is left, normally (finished) or by the exception of a defect or of an
\* engine that raises
EndSessionOutcome(data, raises) ==
    LET created == currentSessionId = 0
        sess1 == IF created THEN LogSession(sessions, sessionMode) ELSE sessions
        sid == IF created THEN Len(sessions) + 1 ELSE currentSessionId
        isLevel == IsLevelSession
        lvl == IF isLevel
               THEN LevelManagerComplete(levelProgress, SessionLevel, data.total,
                                         data.correct, data.totalTime)
               ELSE [success |-> FALSE, stars |-> 0, progress |-> levelProgress]
        stats1 == IF isLevel
                  THEN [sessionStats EXCEPT !.questions_answered = data.total,
                                            !.correct_answers = data.correct,
                                            !.total_time = data.totalTime]
                  ELSE sessionStats
        sess2 == UpdateSession(sess1, sid,
                     IF data.defect = "illtyped_total" THEN IllTypedTotal ELSE data.total,
                     data.correct)
        st0 == ManagerState("dialog")
        st == CheckFrom(1, st0, [total |-> data.total, correct |-> data.correct],
                        Len(attempts))
        atLevel == [finished |-> FALSE, sid |-> sid, sessions |-> sess1,
                    stats |-> sessionStats, progress |-> levelProgress,
                    badges |-> st0, stars |-> 0]
        atUpdate == [atLevel EXCEPT !.stats = stats1, !.progress = lvl.progress]
        atBadges == [atUpdate EXCEPT !.sessions = sess2]
    IN  IF isLevel /\ (raises = "level" \/ data.defect # "none") THEN atLevel
        ELSE IF data.defect = "missing_correct" THEN atUpdate
        ELSE IF raises = "badges" \/ data.defect = "illtyped_total" THEN atBadges
        ELSE [atBadges EXCEPT !.finished = TRUE, !.badges = st, !.stars = lvl.stars]

EndSession(data, raises) ==
    /\ sessionOps < MaxSessionOps
    /\ data.defect = "none" \/ raises = "none"
    /\ raises = "level" => IsLevelSession
    /\ sessionOps' = sessionOps + 1
    /\ LET out == EndSessionOutcome(data, raises)
       IN  /\ sessions' = out.sessions
           /\ sessionStats' = out.stats
           /\ levelProgress' = out.progress
           /\ achievements' = out.badges.store
           /\ unlocked' = [unlocked EXCEPT !["dialog"] = out.badges.unlocked]
           /\ unlockReturns' = out.badges.log
           /\ newlyUnlocked' = IF out.finished THEN out.badges.newly ELSE newlyUnlocked
           /\ checkLog' = IF out.finished
                           THEN Append(checkLog, [direct |-> "None",
                                                  total |-> data.total,
                                                  correct |-> data.correct,
                                                  newly |-> out.badges.newly])
                           ELSE checkLog
           /\ sessionActive' = IF out.finished THEN FALSE ELSE sessionActive
           /\ currentSessionId' = IF out.finished THEN 0 ELSE currentSessionId
           /\ lastCall' = [op |-> "end_session", defect |-> data.defect,
                           raised |-> raises,
                           status |-> IF out.finished THEN "success" ELSE "error",
                           sid |-> out.sid,
                           newBadges |-> IF out.finished THEN out.badges.newly ELSE <<>>,
                           levelStars |-> out.stars,
                           total |-> data.total,
                           correct |-> data.correct,
                           totalTime |-> data.totalTime,
                           level |-> IF IsLevelSession THEN SessionLevel.id ELSE 0]
    /\ UNCHANGED <<sessionMode, activeLevelId, badgeOps, attempts, adaptive, adaptiveUpdates, weakness,
                   weaknessUpdates>>
    /\ UNCHANGED otherThanSession

NextStartSession == \E mode \in SessionModes : StartSession(mode)
NextBridgeLogAttempt == \E data \in AttemptPayloads : BridgeLogAttempt(data)
NextEndSession == \E data \in EndPayloads, raises \in Raises : EndSession(data, raises)

NextCheckAnswer ==
    \E cell \in Cells, correct \in BOOLEAN : CheckAnswer(cell, correct, 2)

NextSession ==
    NextStartSession \/ NextBridgeLogAttempt \/ NextEndSession \/ NextCheckAnswer

\* levels.LevelManager._load_levels: the generated level 5, a speed run
SpeedLevel ==
    [id |-> 5, questions |-> 10, time_limit |-> 40, min_accuracy |-> 80,
     min_accuracy_3 |-> 100, max_time_3 |-> 30, min_accuracy_2 |-> 90, max_time_2 |-> 0]

EngineLevels == {SessionLevel, SpeedLevel}

\* PythonBridge.complete_level(data): db_api.complete_level(level_id, stats)
BridgeCompleteLevel(level, total, correct, total_time) ==
    /\ sessionOps < MaxSessionOps
    /\ sessionOps' = sessionOps + 1
    /\ LET out == LevelManagerComplete(levelProgress, level, total, correct, total_time)
       IN  /\ levelProgress' = out.progress
           /\ lastCall' = [NoCall EXCEPT !.op = "complete_level",
                                         !.status = IF out.success THEN "success"
                                                    ELSE "failed",
                                         !.levelStars = out.stars,
                                         !.total = total, !.correct = correct,
                                         !.totalTime = total_time, !.level = level.id]
    /\ UNCHANGED <<sessions, currentSessionId, sessionActive, sessionMode, activeLevelId,
                   sessionStats, varsBadges, varsAdaptive, varsWeakness>>
    /\ UNCHANGED otherThanSession

NextEngine ==
    \E level \in EngineLevels, total \in {9, 10}, correct \in {7, 8, 10},
       total_time \in {20, 35, 45} :
        correct <= total /\ BridgeCompleteLevel(level, total, correct, total_time)

----------------------------------------------------------------------------
(* json_storage.py : get_weakness_areas ; coach.py : SmartCoach            *)

\* operations_order x digits_order of update_learning_path, over the cells
\* practised here
LearningOrder == <<<<"Addition", 1>>, <<"Multiplication", 2>>>>

\* list.sort(key, reverse=True): descending and stable; x goes behind
\* the elements, ahead of them, whose key is not smaller than its own
InsertBehind(sorted, x, ahead) ==
    SubSeq(sorted, 1, ahead) \o <<x>> \o SubSeq(sorted, ahead + 1, Len(sorted))

\* the sort key (weakness_score, last_practiced) of get_weakness_areas,
\* compared as Python compares tuples
AreaKeyLess(a, b) ==
    \/ a.weakness_score < b.weakness_score
    \/ a.weakness_score = b.weakness_score /\ a.last_practiced < b.last_practiced

RECURSIVE SortAreas(_)
SortAreas(w) ==
    IF Len(w) = 0 THEN <<>>
    ELSE LET sorted == SortAreas(SubSeq(w, 1, Len(w) - 1))
             x == w[Len(w)]
         IN  InsertBehind(sorted, x,
                 Cardinality({i \in 1..Len(sorted) : ~AreaKeyLess(sorted[i], x)}))

\* get_weakness_areas: the entries with weakness_score > 20, sorted
GetWeaknessAreas(weakness_data, dates) ==
    LET dated == [i \in 1..Len(weakness_data) |->
                     [operation |-> weakness_data[i].operation,
                      digits |-> weakness_data[i].digits,
                      weakness_score |-> weakness_data[i].weakness_score,
                      consecutive_correct |-> weakness_data[i].consecutive_correct,
                      last_practiced |->
                          dates[<<weakness_data[i].operation, weakness_data[i].digits>>]]]
        filtered == SelectSeq(dated, LAMBDA w : w.weakness_score > 20)
    IN  SortAreas(filtered)

\* a knowledge_map slot; known is false while the key is absent from the dict
NoSkill == [known |-> FALSE, score |-> 0, level |-> "None", count |-> 0,
            last_practiced |-> 0]

SkillLevel(skill_score) ==
    IF skill_score >= 90 THEN "Master"
    ELSE IF skill_score >= 80 THEN "Proficient"
    ELSE IF skill_score >= 70 THEN "Competent"
    ELSE IF skill_score >= 50 THEN "Learning"
    ELSE "Struggling"

\* SmartCoach.analyze: the entries returned by get_weakness_areas are written
\* into knowledge_map; the other keys of the dict are left as they were
Analyze(map, weakness_list, day) ==
    [c \in Cells |->
        LET hits == {i \in 1..Len(weakness_list) :
                        <<weakness_list[i].operation, weakness_list[i].digits>> = c}
        IN  IF hits = {} THEN map[c]
            ELSE LET w == weakness_list[CHOOSE i \in hits : \A j \in hits : i >= j]
                 IN  [known |-> TRUE,
                      score |-> 100 - w.weakness_score,
                      level |-> SkillLevel(100 - w.weakness_score),
                      count |-> w.consecutive_correct + 5,
                      last_practiced |-> day]]

PriorityLess(a, b) == a.priority < b.priority

\* learning_path.sort(key=priority, reverse=True)
RECURSIVE SortPath(_)
SortPath(w) ==
    IF Len(w) = 0 THEN <<>>
    ELSE LET sorted == SortPath(SubSeq(w, 1, Len(w) - 1))
             x == w[Len(w)]
         IN  InsertBehind(sorted, x,
                 Cardinality({i \in 1..Len(sorted) : ~PriorityLess(sorted[i], x)}))

DefaultLearningPath ==
    << [operation |-> "Addition", digits |-> 1, priority |-> 100,
        current_score |-> 0, level |-> "New"],
       [operation |-> "Subtraction", digits |-> 1, priority |-> 90,
        current_score |-> 0, level |-> "New"],
       [operation |-> "Multiplication", digits |-> 1, priority |-> 80,
        current_score |-> 0, level |-> "New"] >>

\* SmartCoach.update_learning_path (next_review is always None)
UpdateLearningPath(map, day) ==
    LET known == SelectSeq(LearningOrder, LAMBDA c : map[c].known)
        path == [k \in 1..Len(known) |->
                    [operation |-> known[k][1],
                     digits |-> known[k][2],
                     priority |-> (100 - map[known[k]].score)
                                  + Min2(30, (day - map[known[k]].last_practiced) * 2),
                     current_score |-> map[known[k]].score,
                     level |-> map[known[k]].level]]
    IN  IF Len(known) = 0 THEN DefaultLearningPath
        ELSE SortPath(path)

ReasonTag(level) ==
    CASE level = "New" -> "NEW SKILL"
      [] level = "Struggling" -> "BUILD CONFIDENCE"
      [] level = "Learning" -> "SOLIDIFY"
      [] level = "Competent" -> "BUILD SPEED"
      [] level = "Proficient" -> "REACH MASTERY"
      [] OTHER -> "MAINTAIN"

IsKey(map, skill) ==
    <<skill.operation, skill.digits>> \in Cells /\ map[<<skill.operation, skill.digits>>].known

\* min(immediate_needs, key=current_score) is the first
\* element of the list with the least current_score
FirstMinimum(needs) ==
    needs[CHOOSE i \in 1..Len(needs) :
              /\ \A j \in 1..Len(needs) : needs[i].current_score <= needs[j].current_score
              /\ \A j \in 1..(i - 1) : needs[j].current_score > needs[i].current_score]

\* SmartCoach.get_recommendation after analyze: the set of results the call
\* can return; random.choices may draw any skill of the consideration set,
\* every weight priority ** 2 being positive or the skill being undrawable
RecommendationOutcomes(map, path) ==
    LET immediate_needs ==
            SelectSeq(path, LAMBDA skill :
                IsKey(map, skill) /\ map[<<skill.operation, skill.digits>>].score < 40)
        consideration_set == SubSeq(path, 1, Min2(5, Len(path)))
    IN  IF Len(immediate_needs) > 0
        THEN {[operation |-> FirstMinimum(immediate_needs).operation,
               digits |-> FirstMinimum(immediate_needs).digits,
               tag |-> "CRITICAL",
               random |-> FALSE]}
        ELSE {[operation |-> consideration_set[k].operation,
               digits |-> consideration_set[k].digits,
               tag |-> ReasonTag(consideration_set[k].level),
               random |-> TRUE] :
                 k \in {j \in 1..Len(consideration_set) :
                           consideration_set[j].priority # 0}}

NoRecommendation == [operation |-> "None", digits |-> 0, tag |-> "None", random |-> FALSE]

IdleCoach ==
    /\ today = 1
    /\ lastPracticed = [c \in Cells |-> 0]
    /\ knowledgeMap = [c \in Cells |-> NoSkill]
    /\ areas = <<>>
    /\ recommendation = NoRecommendation
    /\ practiceCalls = 0
    /\ recommendCalls = 0

\* one practised question: PythonBridge.log_attempt stores the attempt and
\* then updates the weakness entry of the cell, stamped with today's date
Practice(cell, correct, time_taken) ==
    /\ practiceCalls < MaxPractice
    /\ practiceCalls' = practiceCalls + 1
    /\ attempts' = LogAttemptData(attempts, cell[1], cell[2], correct, time_taken)
    /\ weakness' = UpdateWeaknessTracking(weakness, attempts', cell[1], cell[2], correct)
    /\ weaknessUpdates' = Append(weaknessUpdates, <<cell[1], cell[2], correct>>)
    /\ lastPracticed' = [lastPracticed EXCEPT ![cell] = today]
    /\ UNCHANGED <<today, knowledgeMap, areas, recommendation, recommendCalls>>
    /\ UNCHANGED otherThanCoach

\* midnight passes
NextDay ==
    /\ today < MaxDay
    /\ today' = today + 1
    /\ UNCHANGED <<lastPracticed, knowledgeMap, areas, recommendation, practiceCalls,
                   recommendCalls, attempts, weakness, weaknessUpdates>>
    /\ UNCHANGED otherThanCoach

\* SmartCoach.get_recommendation on the bridge's coach
GetRecommendation ==
    /\ recommendCalls < MaxRecommend
    /\ recommendCalls' = recommendCalls + 1
    /\ areas' = GetWeaknessAreas(weakness, lastPracticed)
    /\ knowledgeMap' = Analyze(knowledgeMap, areas', today)
    /\ recommendation' \in
           RecommendationOutcomes(knowledgeMap', UpdateLearningPath(knowledgeMap', today))
    /\ UNCHANGED <<today, lastPracticed, practiceCalls, attempts, weakness,
                   weaknessUpdates>>
    /\ UNCHANGED otherThanCoach

NextPractice ==
    \E cell \in Cells, correct \in BOOLEAN : Practice(cell, correct, 2)

NextCoach == NextPractice \/ NextDay \/ GetRecommendation

----------------------------------------------------------------------------
(* json_storage.py : export_all_data, import_all_data ; database_api.py :  *)
(* export_data, cleanup_old_data                                           *)

\* the collections export_all_data reads and import_all_data writes (the
\* settings and daily goals dictionaries are left out)
JsonKeys ==
    {"attempts", "sessions", "achievements", "weakness_tracking", "adaptive_difficulty"}

\* the five JSON collections and, under level_progress, the completion
\* records that levels_manager keeps in its own file
EmptyStore ==
    [attempts |-> <<>>, sessions |-> <<>>, achievements |-> <<>>,
     weakness_tracking |-> <<>>, adaptive_difficulty |-> <<>>, level_progress |-> <<>>]

\* a bundle: the keys present in the dict and the list under each
EmptyBundle ==
    [keys |-> {}, attempts |-> <<>>, sessions |-> <<>>, achievements |-> <<>>,
     weakness_tracking |-> <<>>, adaptive_difficulty |-> <<>>]

\* data.get(key, [])
BundleGet(data, key) == IF key \in data.keys THEN data[key] ELSE <<>>

\* json_storage.export_all_data
ExportAllData(st) ==
    [keys |-> JsonKeys, attempts |-> st.attempts, sessions |-> st.sessions,
     achievements |-> st.achievements, weakness_tracking |-> st.weakness_tracking,
     adaptive_difficulty |-> st.adaptive_difficulty]

\* DatabaseAPI.export_data(include_attempts, include_sessions)
ExportData(st, include_attempts, include_sessions) ==
    LET all_data == ExportAllData(st)
    IN  [EmptyBundle EXCEPT
            !.keys = {"achievements"}
                     \cup (IF include_attempts THEN {"attempts"} ELSE {})
                     \cup (IF include_sessions THEN {"sessions"} ELSE {}),
            !.attempts = IF include_attempts THEN all_data.attempts ELSE <<>>,
            !.sessions = IF include_sessions THEN all_data.sessions ELSE <<>>,
            !.achievements = all_data.achievements]

\* the merge loop over the imported attempts: append unless an attempt with
\* the same timestamp is already in the list
RECURSIVE MergeAttempts(_, _)
MergeAttempts(existing, imported) ==
    IF Len(imported) = 0 THEN existing
    ELSE MergeAttempts(
             IF \E i \in 1..Len(existing) : existing[i].timestamp = Head(imported).timestamp
             THEN existing ELSE Append(existing, Head(imported)),
             Tail(imported))

\* the merge loop over the imported sessions: compared by 'created'
RECURSIVE MergeSessions(_, _)
MergeSessions(existing, imported) ==
    IF Len(imported) = 0 THEN existing
    ELSE MergeSessions(
             IF \E i \in 1..Len(existing) : existing[i].created = Head(imported).created
             THEN existing ELSE Append(existing, Head(imported)),
             Tail(imported))

\* mutant: the merge keeps only the imported badges
MergeAchievementsImportedOnly(existing, imported) == imported

\* the merge of the achievements: existing_codes is computed once, before
\* the loop
MergeAchievements(existing, imported) ==
    LET existing_codes == {existing[i].code : i \in 1..Len(existing)}
    IN  existing \o SelectSeq(imported, LAMBDA a : a.code \notin existing_codes)

\* json_storage.import_all_data(data, merge)
ImportAllData(st, data, merge) ==
    IF ~merge
    THEN [st EXCEPT !.attempts = BundleGet(data, "attempts"),
                    !.sessions = BundleGet(data, "sessions"),
                    !.achievements = BundleGet(data, "achievements"),
                    !.weakness_tracking = BundleGet(data, "weakness_tracking"),
                    !.adaptive_difficulty = BundleGet(data, "adaptive_difficulty")]
    ELSE [st EXCEPT !.attempts = MergeAttempts(@, BundleGet(data, "attempts")),
                    !.sessions = MergeSessions(@, BundleGet(data, "sessions")),
                    !.achievements = MergeAchievements(@, BundleGet(data, "achievements")),
                    !.weakness_tracking = BundleGet(data, "weakness_tracking"),
                    !.adaptive_difficulty = BundleGet(data, "adaptive_difficulty")]

\* mutant: the cutoff comparison is strict
CleanupOldDataStrict(st, day, days_to_keep) ==
    [st EXCEPT !.attempts = SelectSeq(@, LAMBDA a : a.created > day - days_to_keep),
               !.sessions = SelectSeq(@, LAMBDA x : x.created.day > day - days_to_keep)]

\* DatabaseAPI.cleanup_old_data(days_to_keep)
CleanupOldData(st, day, days_to_keep) ==
    [st EXCEPT !.attempts = SelectSeq(@, LAMBDA a : a.created >= day - days_to_keep),
               !.sessions = SelectSeq(@, LAMBDA x : x.created.day >= day - days_to_keep)]

\* the profile of a cell after one more attempt: the entry of the cell is
\* replaced or appended, as update_weakness_tracking and
\* update_adaptive_difficulty do
BumpProfile(data, op, d) ==
    LET i == FindEntry(data, op, d)
    IN  IF i # 0 THEN [data EXCEPT ![i].total_attempts = @ + 1]
        ELSE Append(data, [id |-> Len(data) + 1, operation |-> op, digits |-> d,
                           total_attempts |-> 1])

\* PythonBridge.log_attempt on the store: create_attempt, then the adaptive
\* and the weakness update of the cell
StoreAttempt(st, op, d, correct, day, tick) ==
    [st EXCEPT !.attempts = Append(@, [id |-> Len(@) + 1, operation |-> op, digits |-> d,
                                       correct |-> correct, created |-> day,
                                       timestamp |-> tick]),
               !.adaptive_difficulty = BumpProfile(@, op, d),
               !.weakness_tracking = BumpProfile(@, op, d)]

\* json_storage.log_session
StoreSession(st, day, tick) ==
    [st EXCEPT !.sessions = Append(@, [id |-> Len(@) + 1, total_attempts |-> 0,
                                       created |-> [day |-> day, tick |-> tick]])]

\* DatabaseAPI.update_session on the store: the first session with the id
StoreSessionTotal(st, session_id, total) ==
    LET hits == {i \in 1..Len(st.sessions) : st.sessions[i].id = session_id}
    IN  IF hits = {} THEN st
        ELSE LET first == CHOOSE i \in hits : \A j \in hits : i <= j
             IN  [st EXCEPT !.sessions[first].total_attempts = total]

\* bundles written on another installation: one by export_data, one by
\* export_all_data
ForeignBundles ==
    { [EmptyBundle EXCEPT
          !.keys = {"attempts", "sessions", "achievements"},
          !.attempts = <<[id |-> 1, operation |-> "Multiplication", digits |-> 2,
                          correct |-> FALSE, created |-> 1, timestamp |-> 1]>>,
          !.sessions = <<[id |-> 1, total_attempts |-> 5,
                          created |-> [day |-> 1, tick |-> 50]]>>,
          !.achievements = <<[id |-> 1, code |-> "sniper"]>>],
      [EmptyBundle EXCEPT
          !.keys = JsonKeys,
          !.attempts = <<[id |-> 1, operation |-> "Multiplication", digits |-> 2,
                          correct |-> TRUE, created |-> 1, timestamp |-> 51]>>,
          !.achievements = <<[id |-> 1, code |-> "first_win"]>>,
          !.weakness_tracking = <<[id |-> 1, operation |-> "Multiplication", digits |-> 2,
                                   total_attempts |-> 1]>>,
          !.adaptive_difficulty = <<[id |-> 1, operation |-> "Multiplication", digits |-> 2,
                                     total_attempts |-> 1]>>] }

StoreCodes == {"first_win", "sniper"}

NoStoreCall == [op |-> "none", merge |-> FALSE, data |-> EmptyBundle, days |-> 0]

IdleStore ==
    /\ jsonStore = EmptyStore
    /\ bundle = EmptyBundle
    /\ exportedFrom = EmptyStore
    /\ storeBefore = EmptyStore
    /\ storeCall = NoStoreCall
    /\ clock = 1
    /\ storeDay = 1
    /\ storeOps = 0

\* every operation: the budget, the history of the previous jsonStore
StoreStep(op) ==
    /\ storeOps < MaxStoreOps
    /\ storeOps' = storeOps + 1
    /\ storeBefore' = jsonStore
    /\ UNCHANGED otherThanStore

StoreLogAttempt(correct) ==
    /\ StoreStep("log_attempt")
    /\ jsonStore' = StoreAttempt(jsonStore, "Addition", 1, correct, storeDay, clock)
    /\ clock' = clock + 1
    /\ storeCall' = [NoStoreCall EXCEPT !.op = "log_attempt"]
    /\ UNCHANGED <<bundle, exportedFrom, storeDay>>

StoreLogSession ==
    /\ StoreStep("log_session")
    /\ jsonStore' = StoreSession(jsonStore, storeDay, clock)
    /\ clock' = clock + 1
    /\ storeCall' = [NoStoreCall EXCEPT !.op = "log_session"]
    /\ UNCHANGED <<bundle, exportedFrom, storeDay>>

\* end_session writes the totals of a session it holds the id of
StoreUpdateSession(session_id) ==
    /\ StoreStep("update_session")
    /\ jsonStore' = StoreSessionTotal(jsonStore, session_id, 10)
    /\ storeCall' = [NoStoreCall EXCEPT !.op = "update_session"]
    /\ UNCHANGED <<bundle, exportedFrom, clock, storeDay>>

\* json_storage.unlock_achievement(code)
StoreUnlock(code) ==
    /\ StoreStep("unlock_achievement")
    /\ jsonStore' = [jsonStore EXCEPT !.achievements = UnlockAchievement(@, code)[2]]
    /\ storeCall' = [NoStoreCall EXCEPT !.op = "unlock_achievement"]
    /\ UNCHANGED <<bundle, exportedFrom, clock, storeDay>>

\* a level is completed: levels_manager writes its completion record
StoreCompleteLevel ==
    /\ StoreStep("complete_level")
    /\ jsonStore.level_progress = <<>>
    /\ jsonStore' = [jsonStore EXCEPT !.level_progress = <<[levelId |-> 1, starsEarned |-> 3]>>]
    /\ storeCall' = [NoStoreCall EXCEPT !.op = "complete_level"]
    /\ UNCHANGED <<bundle, exportedFrom, clock, storeDay>>

ExportAllCall ==
    /\ StoreStep("export_all_data")
    /\ bundle' = ExportAllData(jsonStore)
    /\ exportedFrom' = jsonStore
    /\ storeCall' = [NoStoreCall EXCEPT !.op = "export"]
    /\ UNCHANGED <<jsonStore, clock, storeDay>>

ExportDataCall(include_attempts, include_sessions) ==
    /\ StoreStep("export_data")
    /\ bundle' = ExportData(jsonStore, include_attempts, include_sessions)
    /\ exportedFrom' = jsonStore
    /\ storeCall' = [NoStoreCall EXCEPT !.op = "export"]
    /\ UNCHANGED <<jsonStore, clock, storeDay>>

\* DatabaseAPI.import_data(data, merge)
ImportCall(data, merge) ==
    /\ StoreStep("import_data")
    /\ jsonStore' = ImportAllData(jsonStore, data, merge)
    /\ storeCall' = [op |-> "import", merge |-> merge, data |-> data, days |-> 0]
    /\ UNCHANGED <<bundle, exportedFrom, clock, storeDay>>

\* the add-on is installed afresh: init_json_storage writes empty files
FreshInstall ==
    /\ StoreStep("init_json_storage")
    /\ jsonStore # EmptyStore
    /\ jsonStore' = EmptyStore
    /\ storeCall' = [NoStoreCall EXCEPT !.op = "fresh_install"]
    /\ UNCHANGED <<bundle, exportedFrom, clock, storeDay>>

CleanupCall(days_to_keep) ==
    /\ StoreStep("cleanup_old_data")
    /\ jsonStore' = CleanupOldData(jsonStore, storeDay, days_to_keep)
    /\ storeCall' = [NoStoreCall EXCEPT !.op = "cleanup", !.days = days_to_keep]
    /\ UNCHANGED <<bundle, exportedFrom, clock, storeDay>>

\* midnight passes
StoreNextDay ==
    /\ storeDay < MaxStoreDay
    /\ storeDay' = storeDay + 1
    /\ storeBefore' = jsonStore
    /\ storeCall' = [NoStoreCall EXCEPT !.op = "next_day"]
    /\ UNCHANGED <<jsonStore, bundle, exportedFrom, clock, storeOps>>
    /\ UNCHANGED otherThanStore

NextStoreLogAttempt == \E correct \in BOOLEAN : StoreLogAttempt(correct)
NextStoreUpdateSession ==
    \E session_id \in {jsonStore.sessions[i].id : i \in 1..Len(jsonStore.sessions)} :
        StoreUpdateSession(session_id)
NextStoreUnlock == \E code \in StoreCodes : StoreUnlock(code)
NextExportDataCall ==
    \E include_attempts \in BOOLEAN, include_sessions \in BOOLEAN :
        ExportDataCall(include_attempts, include_sessions)
NextImportCall ==
    \E data \in ForeignBundles \cup {bundle}, merge \in BOOLEAN : ImportCall(data, merge)
NextCleanupCall == \E days_to_keep \in {0, 1} : CleanupCall(days_to_keep)

NextStore ==
    \/ NextStoreLogAttempt \/ StoreLogSession \/ NextStoreUpdateSession \/ NextStoreUnlock
    \/ StoreCompleteLevel
    \/ ExportAllCall \/ NextExportDataCall \/ NextImportCall \/ FreshInstall
    \/ NextCleanupCall \/ StoreNextDay

----------------------------------------------------------------------------
(* coach.py : should_continue_focus ; main_webengine.py :                  *)
(* get_coach_recommendation                                                *)

NoFocus == <<"None", 0>>

\* what knowledge_map may hold for the focus cell after analyze: no entry,
\* a struggling skill, a mastered skill
FocusSkills ==
    {[known |-> FALSE, score |-> 0, acc |-> 0],
     [known |-> TRUE, score |-> 30, acc |-> 70],
     [known |-> TRUE, score |-> 95, acc |-> 100]}

\* SmartCoach.should_continue_focus(operation, digits, questions_so_far), given
\* the knowledge_map entry of the cell
ShouldContinueFocus(skill, questions_so_far) ==
    IF ~skill.known THEN TRUE
    ELSE IF questions_so_far >= 15 THEN FALSE
    ELSE skill.score < 60 \/ questions_so_far < 5 \/ skill.acc < 80

NoCoachResult == [target |-> NoFocus, continued |-> FALSE, answered |-> 0, count |-> 0]

IdleFocus ==
    /\ currentFocusArea = NoFocus
    /\ focusSessionCount = 0
    /\ focusAnswered = 0
    /\ coachResult = NoCoachResult

\* a question of the current focus is answered: log_attempt stores the
\* attempt and touches neither focus field
FocusAnswer ==
    /\ currentFocusArea # NoFocus
    /\ focusAnswered < MaxFocusAnswers
    /\ focusAnswered' = focusAnswered + 1
    /\ UNCHANGED <<currentFocusArea, focusSessionCount, coachResult>>
    /\ UNCHANGED otherThanFocus

\* PythonBridge.get_coach_recommendation: should_continue_focus is called
\* with the cell only, so questions_so_far takes its default 0; skill is the
\* knowledge_map entry of the focus, target what get_recommendation returns
GetCoachRecommendation(skill, target) ==
    /\ IF currentFocusArea # NoFocus /\ ShouldContinueFocus(skill, 0)
       THEN /\ coachResult' = [target |-> currentFocusArea, continued |-> TRUE,
                               answered |-> focusAnswered,
                               count |-> focusSessionCount + 1]
            /\ UNCHANGED <<currentFocusArea, focusSessionCount, focusAnswered>>
       ELSE /\ coachResult' = [target |-> target, continued |-> FALSE,
                               answered |-> focusAnswered, count |-> 0]
            /\ currentFocusArea' = target
            /\ focusSessionCount' = 0
            /\ focusAnswered' = 0
    /\ UNCHANGED otherThanFocus

\* MathDrillWebEngine.reset_session
FocusResetSession ==
    /\ currentFocusArea # NoFocus
    /\ currentFocusArea' = NoFocus
    /\ focusSessionCount' = 0
    /\ focusAnswered' = 0
    /\ UNCHANGED coachResult
    /\ UNCHANGED otherThanFocus

NextGetCoachRecommendation ==
    \E skill \in FocusSkills, target \in Cells : GetCoachRecommendation(skill, target)

NextFocus == FocusAnswer \/ NextGetCoachRecommendation \/ FocusResetSession

----------------------------------------------------------------------------
(* main.py : MathDrill.start_retake, generate_question, check_answer       *)

Questions == {"3 + 4", "6 x 7"}
NoQuestion == "none"

\* the unique mistakes end_session hands to start_retake
MistakeLists ==
    {<<a>> : a \in Questions}
        \cup {pair \in {<<a, b>> : a \in Questions, b \in Questions} : pair[1] # pair[2]}

QueueSet(queue) == {queue[i] : i \in 1..Len(queue)}

\* item = queue.pop(0); queue.append(item)
Rotate(queue) == Append(Tail(queue), Head(queue))

IdleRetake ==
    /\ retakeActive = FALSE
    /\ retakeQueue = <<>>
    /\ retakeMastery = [q \in Questions |-> 0]
    /\ shownQuestion = NoQuestion
    /\ startTimeSet = FALSE
    /\ inputReadOnly = FALSE
    /\ timerPending = FALSE
    /\ retakeSet = {}
    /\ retakeLog = [q \in Questions |-> <<>>]
    /\ retakeOps = 0

RetakeStep ==
    /\ retakeOps < MaxRetakeOps
    /\ retakeOps' = retakeOps + 1
    /\ UNCHANGED otherThanRetake

\* the retake branch of generate_question, and its exit when retake is off
GenerateQuestionEffect ==
    IF retakeActive /\ retakeQueue = <<>>
    THEN /\ retakeActive' = FALSE
         /\ shownQuestion' = NoQuestion
         /\ UNCHANGED <<startTimeSet, inputReadOnly>>
    ELSE IF retakeActive
    THEN /\ shownQuestion' = Head(retakeQueue)
         /\ startTimeSet' = TRUE
         /\ inputReadOnly' = FALSE
         /\ UNCHANGED retakeActive
    ELSE /\ shownQuestion' = NoQuestion
         /\ startTimeSet' = FALSE
         /\ inputReadOnly' = FALSE
         /\ UNCHANGED retakeActive

\* MathDrill.start_retake(mistakes), called by end_session after the dialog
StartRetake(mistakes) ==
    /\ RetakeStep
    /\ ~retakeActive /\ retakeSet = {}
    /\ retakeActive' = TRUE
    /\ retakeQueue' = mistakes
    /\ retakeMastery' = [q \in Questions |-> 0]
    /\ retakeSet' = QueueSet(mistakes)
    /\ retakeLog' = [q \in Questions |-> <<>>]
    /\ shownQuestion' = Head(mistakes)
    /\ startTimeSet' = TRUE
    /\ inputReadOnly' = FALSE
    /\ UNCHANGED timerPending

\* MathDrill.check_answer in retake mode with a non-empty answer text.  With
\* start_time None it only generates the question.  A right answer leaves
\* start_time, the text and the label as they are and makes the input
\* read-only until the timer fires; returnPressed is emitted by a read-only
\* line edit too, so Return can be pressed again on the same text.
RetakeCheckAnswer(correct) ==
    /\ RetakeStep
    /\ retakeActive /\ shownQuestion # NoQuestion
    /\ inputReadOnly => correct
    /\ ~startTimeSet => ~correct
    /\ IF ~startTimeSet
       THEN /\ GenerateQuestionEffect
            /\ UNCHANGED <<retakeQueue, retakeMastery, timerPending, retakeLog>>
       ELSE /\ retakeLog' = [retakeLog EXCEPT ![shownQuestion] = Append(@, correct)]
            /\ timerPending' = TRUE
            /\ UNCHANGED <<retakeActive, shownQuestion>>
            /\ IF correct
               THEN /\ retakeMastery' = [retakeMastery EXCEPT ![shownQuestion] = @ + 1]
                    /\ inputReadOnly' = TRUE
                    /\ UNCHANGED startTimeSet
                    /\ retakeQueue' =
                         IF retakeQueue = <<>> THEN retakeQueue      \* pop(0) raises
                         ELSE IF retakeMastery[shownQuestion] + 1 >= 2
                         THEN Tail(retakeQueue)
                         ELSE Rotate(retakeQueue)
               ELSE /\ retakeMastery' = [retakeMastery EXCEPT ![shownQuestion] = 0]
                    /\ startTimeSet' = FALSE
                    /\ UNCHANGED inputReadOnly
                    /\ retakeQueue' = Rotate(retakeQueue)
    /\ UNCHANGED retakeSet

\* the single-shot timer fires: generate_question
RetakeTimer ==
    /\ RetakeStep
    /\ timerPending
    /\ timerPending' = FALSE
    /\ GenerateQuestionEffect
    /\ UNCHANGED <<retakeQueue, retakeMastery, retakeSet, retakeLog>>

\* MathDrill.reset_session: the mode box is changed, or Escape in a session
RetakeResetSession ==
    /\ RetakeStep
    /\ retakeActive
    /\ retakeActive' = FALSE
    /\ startTimeSet' = FALSE
    /\ UNCHANGED <<retakeQueue, retakeMastery, shownQuestion, inputReadOnly, timerPending,
                   retakeSet, retakeLog>>

NextStartRetake == \E mistakes \in MistakeLists : StartRetake(mistakes)
NextRetakeCheckAnswer == \E correct \in BOOLEAN : RetakeCheckAnswer(correct)

NextRetake == NextStartRetake \/ NextRetakeCheckAnswer \/ RetakeTimer \/ RetakeResetSession

----------------------------------------------------------------------------
(* levels_manager.py : _atomic_write, save_completions                     *)

NoReturn == [value |-> "none", removeRaised |-> FALSE]

IdleAtomic ==
    /\ completionFile = Text(<<>>)
    /\ tempFile = MissingFile
    /\ atomicPc = "idle"
    /\ atomicData = <<>>
    /\ atomicReturn = NoReturn
    /\ completionBefore = Text(<<>>)
    /\ atomicOps = 0

\* save_completions: _atomic_write(data, self.completion_path) is called
AtomicCall(list) ==
    /\ atomicPc = "idle"
    /\ atomicOps < MaxAtomicOps
    /\ atomicOps' = atomicOps + 1
    /\ atomicData' = list
    /\ completionBefore' = completionFile
    /\ atomicReturn' = NoReturn
    /\ atomicPc' = "open"
    /\ UNCHANGED <<completionFile, tempFile>>
    /\ UNCHANGED otherThanAtomic

\* mutant: the completion file itself is opened for writing
AtomicOpenInPlace ==
    /\ atomicPc = "open"
    /\ completionFile' = <<>>
    /\ atomicPc' = "writing"
    /\ UNCHANGED <<tempFile, atomicData, atomicReturn, completionBefore, atomicOps>>
    /\ UNCHANGED otherThanAtomic

\* open(temp_path, 'w') creates or truncates the temp file
AtomicOpen ==
    /\ atomicPc = "open"
    /\ tempFile' = <<>>
    /\ atomicPc' = "writing"
    /\ UNCHANGED <<completionFile, atomicData, atomicReturn, completionBefore, atomicOps>>
    /\ UNCHANGED otherThanAtomic

\* json.dump writes the next piece of the text to the temp file
AtomicWriteChunk ==
    /\ atomicPc = "writing"
    /\ Len(tempFile) < Len(Text(atomicData))
    /\ tempFile' = Append(tempFile, Text(atomicData)[Len(tempFile) + 1])
    /\ UNCHANGED <<completionFile, atomicPc, atomicData, atomicReturn, completionBefore,
                   atomicOps>>
    /\ UNCHANGED otherThanAtomic

\* the temp file is closed; os.replace(temp_path, path); return True
AtomicReplace ==
    /\ atomicPc = "writing"
    /\ tempFile = Text(atomicData)
    /\ completionFile' = tempFile
    /\ tempFile' = MissingFile
    /\ atomicReturn' = [value |-> "true", removeRaised |-> FALSE]
    /\ atomicPc' = "idle"
    /\ UNCHANGED <<atomicData, completionBefore, atomicOps>>
    /\ UNCHANGED otherThanAtomic

\* open, json.dump or os.replace raises: control enters the except block
AtomicRaise ==
    /\ atomicPc \in {"open", "writing"}
    /\ atomicOps < MaxAtomicOps
    /\ atomicOps' = atomicOps + 1
    /\ atomicPc' = "except"
    /\ UNCHANGED <<completionFile, tempFile, atomicData, atomicReturn, completionBefore>>
    /\ UNCHANGED otherThanAtomic

\* the except block: os.remove(temp_path) if it exists, an OSError of the
\* removal is passed over; return False
AtomicExcept(remove_raises) ==
    /\ atomicPc = "except"
    /\ remove_raises => tempFile # MissingFile
    /\ tempFile' = IF remove_raises THEN tempFile ELSE MissingFile
    /\ atomicReturn' = [value |-> "false", removeRaised |-> remove_raises]
    /\ atomicPc' = "idle"
    /\ UNCHANGED <<completionFile, atomicData, completionBefore, atomicOps>>
    /\ UNCHANGED otherThanAtomic

\* the process is killed inside the call
AtomicCrash ==
    /\ atomicPc \notin {"idle", "crashed"}
    /\ atomicOps < MaxAtomicOps
    /\ atomicOps' = atomicOps + 1
    /\ atomicPc' = "crashed"
    /\ UNCHANGED <<completionFile, tempFile, atomicData, atomicReturn, completionBefore>>
    /\ UNCHANGED otherThanAtomic

\* the add-on is started again over the files on disk
AtomicRestart ==
    /\ atomicPc = "crashed"
    /\ atomicPc' = "idle"
    /\ UNCHANGED <<completionFile, tempFile, atomicData, atomicReturn, completionBefore,
                   atomicOps>>
    /\ UNCHANGED otherThanAtomic

NextAtomicCall == \E list \in FileLists : AtomicCall(list)
NextAtomicExcept == \E remove_raises \in BOOLEAN : AtomicExcept(remove_raises)

NextAtomic ==
    \/ NextAtomicCall \/ AtomicOpen \/ AtomicWriteChunk \/ AtomicReplace \/ AtomicRaise
    \/ NextAtomicExcept \/ AtomicCrash \/ AtomicRestart

----------------------------------------------------------------------------
(* attempts_manager.py : AttemptsManager.save_attempts                     *)

\* an incoming attempt is represented by its id, MissingId when the dict
\* has no "id" key
MissingId == 0
SuppliedIds == {MissingId, 1, 2, 3}

\* a single attempt or a batch of two
AttemptBatches ==
    {<<a>> : a \in SuppliedIds} \cup {<<a, b>> : a \in SuppliedIds, b \in SuppliedIds}

\* the loop of save_attempts over new_attempts
RECURSIVE SaveAttemptsLoop(_, _)
SaveAttemptsLoop(data, new_attempts) ==
    IF new_attempts = <<>> THEN data
    ELSE LET attempt == Head(new_attempts)
             conflicting == \E i \in 1..Len(data.attempts) : data.attempts[i] = attempt
             reassign == attempt = MissingId \/ conflicting
             last_id == IF reassign THEN data.lastId + 1 ELSE data.lastId
             id == IF reassign THEN last_id ELSE attempt
         IN  SaveAttemptsLoop([lastId |-> last_id, attempts |-> Append(data.attempts, id)],
                              Tail(new_attempts))

IdleManager ==
    /\ attemptsData = [lastId |-> 0, attempts |-> <<>>]
    /\ saveCalls = 0

\* AttemptsManager.save_attempts(attempts_payload)
SaveAttempts(new_attempts) ==
    /\ saveCalls < MaxSaveCalls
    /\ saveCalls' = saveCalls + 1
    /\ attemptsData' = SaveAttemptsLoop(attemptsData, new_attempts)
    /\ UNCHANGED otherThanManager

NextManager == \E new_attempts \in AttemptBatches : SaveAttempts(new_attempts)

----------------------------------------------------------------------------
(* bridge.py : Bridge.import_data ; backup_manager.py : perform_backup     *)

\* perform_backup(max_backups=5) as import_data calls it
MaxBackups == 5

\* what the backup step of import_data does: the zip is written, the zip
\* cannot be written (perform_backup returns False), or the bridge was
\* built without a backup manager
BackupOutcomes == {"created", "failed", "no_manager"}

\* BackupManager._rotate_backups: the oldest zips beyond max_backups go
RotateBackups(zips, max_backups) ==
    IF Len(zips) > max_backups
    THEN SubSeq(zips, Len(zips) - max_backups + 1, Len(zips))
    ELSE zips

\* BackupManager.perform_backup: <<success, the backups afterwards>>
PerformBackup(zips, user_text, outcome) ==
    IF outcome = "created"
    THEN <<TRUE, RotateBackups(Append(zips, user_text), MaxBackups)>>
    ELSE <<FALSE, zips>>

NoImport == [imported |-> FALSE, before |-> Text(<<>>), backup |-> "no_manager"]

IdleImport ==
    /\ userFile = Text(<<>>)
    /\ backups = <<>>
    /\ importCall = NoImport
    /\ importOps = 0

\* Bridge.import_data with one "*.json" entry: the backup step, whose
\* failure is only printed, then the file is opened for writing and dumped
BridgeImportData(content, outcome) ==
    /\ importOps < MaxImportOps
    /\ importOps' = importOps + 1
    /\ backups' = IF outcome = "no_manager" THEN backups
                  ELSE PerformBackup(backups, userFile, outcome)[2]
    /\ userFile' = Text(content)
    /\ importCall' = [imported |-> TRUE, before |-> userFile, backup |-> outcome]
    /\ UNCHANGED otherThanImport

NextImport ==
    \E content \in FileLists, outcome \in BackupOutcomes : BridgeImportData(content, outcome)

----------------------------------------------------------------------------
(* Specifications, one per subsystem                                       *)

InitSpecAdaptive ==
    InitAdaptive /\ IdleWeakness /\ IdleBadges /\ IdleLevels /\ IdleAppend /\ IdleFile
    /\ IdleSession
    /\ IdleCoach
    /\ IdleStore
    /\ IdleFocus
    /\ IdleStatus
    /\ IdleRetake
    /\ IdleAtomic
    /\ IdleManager
    /\ IdleImport
SpecAdaptive == InitSpecAdaptive /\ [][NextAdaptive]_vars

InitSpecWeakness ==
    InitWeakness /\ IdleAdaptive /\ IdleBadges /\ IdleLevels /\ IdleAppend /\ IdleFile
    /\ IdleSession
    /\ IdleCoach
    /\ IdleStore
    /\ IdleFocus
    /\ IdleStatus
    /\ IdleRetake
    /\ IdleAtomic
    /\ IdleManager
    /\ IdleImport
SpecWeakness == InitSpecWeakness /\ [][NextWeakness]_vars

InitSpecBadges ==
    InitBadges /\ IdleAdaptive /\ IdleLevels /\ IdleAppend /\ IdleFile
    /\ IdleSession
    /\ IdleCoach
    /\ IdleStore
    /\ IdleFocus
    /\ IdleStatus
    /\ IdleRetake
    /\ IdleAtomic
    /\ IdleManager
    /\ IdleImport
SpecBadges == InitSpecBadges /\ [][NextBadges]_vars

InitSpecLevels ==
    IdleLevels /\ IdleAdaptive /\ IdleWeakness /\ IdleBadges /\ IdleAppend /\ IdleFile
    /\ IdleSession
    /\ IdleCoach
    /\ IdleStore
    /\ IdleFocus
    /\ IdleStatus
    /\ IdleRetake
    /\ IdleAtomic
    /\ IdleManager
    /\ IdleImport
SpecLevels == InitSpecLevels /\ [][NextLevels]_vars

InitSpecAppend ==
    IdleAppend /\ IdleAdaptive /\ IdleWeakness /\ IdleBadges /\ IdleLevels
    /\ IdleFile
    /\ IdleSession
    /\ IdleCoach
    /\ IdleStore
    /\ IdleFocus
    /\ IdleStatus
    /\ IdleRetake
    /\ IdleAtomic
    /\ IdleManager
    /\ IdleImport
SpecAppend == InitSpecAppend /\ [][NextAppend]_vars

InitSpecFile ==
    InitFile /\ IdleAppend /\ IdleAdaptive /\ IdleWeakness /\ IdleBadges
    /\ IdleLevels /\ IdleSession
    /\ IdleCoach
    /\ IdleStore
    /\ IdleFocus
    /\ IdleStatus
    /\ IdleRetake
    /\ IdleAtomic
    /\ IdleManager
    /\ IdleImport
SpecFile == InitSpecFile /\ [][NextFile]_vars

InitSpecSession ==
    IdleSession /\ IdleAdaptive /\ IdleWeakness /\ IdleBadges /\ IdleLevels
    /\ IdleAppend /\ IdleFile
    /\ IdleCoach
    /\ IdleStore
    /\ IdleFocus
    /\ IdleStatus
    /\ IdleRetake
    /\ IdleAtomic
    /\ IdleManager
    /\ IdleImport
SpecSession == InitSpecSession /\ [][NextSession]_vars

InitSpecCoach ==
    IdleCoach /\ IdleSession /\ IdleAdaptive /\ IdleWeakness /\ IdleBadges
    /\ IdleLevels /\ IdleAppend /\ IdleFile
    /\ IdleStore
    /\ IdleFocus
    /\ IdleStatus
    /\ IdleRetake
    /\ IdleAtomic
    /\ IdleManager
    /\ IdleImport
SpecCoach == InitSpecCoach /\ [][NextCoach]_vars

SpecStatus == InitSpecBadges /\ [][NextStatus]_vars

SpecEngine == InitSpecSession /\ [][NextEngine]_vars

InitSpecFocus ==
    IdleFocus /\ IdleStore /\ IdleCoach /\ IdleSession /\ IdleAdaptive /\ IdleWeakness
    /\ IdleBadges /\ IdleLevels /\ IdleAppend /\ IdleFile
    /\ IdleStatus
    /\ IdleRetake
    /\ IdleAtomic
    /\ IdleManager
    /\ IdleImport
SpecFocus == InitSpecFocus /\ [][NextFocus]_vars

InitSpecRetake ==
    IdleRetake /\ IdleStatus /\ IdleFocus /\ IdleStore /\ IdleCoach /\ IdleSession
    /\ IdleAdaptive /\ IdleWeakness /\ IdleBadges /\ IdleLevels /\ IdleAppend /\ IdleFile
    /\ IdleAtomic
    /\ IdleManager
    /\ IdleImport
SpecRetake == InitSpecRetake /\ [][NextRetake]_vars

InitSpecAtomic ==
    IdleAtomic /\ IdleRetake /\ IdleStatus /\ IdleFocus /\ IdleStore /\ IdleCoach
    /\ IdleSession /\ IdleAdaptive /\ IdleWeakness /\ IdleBadges /\ IdleLevels
    /\ IdleAppend /\ IdleFile
    /\ IdleManager
    /\ IdleImport
SpecAtomic == InitSpecAtomic /\ [][NextAtomic]_vars

InitSpecManager ==
    IdleManager /\ IdleAtomic /\ IdleRetake /\ IdleStatus /\ IdleFocus /\ IdleStore
    /\ IdleCoach /\ IdleSession /\ IdleAdaptive /\ IdleWeakness /\ IdleBadges
    /\ IdleLevels /\ IdleAppend /\ IdleFile
    /\ IdleImport
SpecManager == InitSpecManager /\ [][NextManager]_vars

InitSpecImport ==
    IdleImport /\ IdleManager /\ IdleAtomic /\ IdleRetake /\ IdleStatus /\ IdleFocus
    /\ IdleStore /\ IdleCoach /\ IdleSession /\ IdleAdaptive /\ IdleWeakness
    /\ IdleBadges /\ IdleLevels /\ IdleAppend /\ IdleFile
SpecImport == InitSpecImport /\ [][NextImport]_vars

InitSpecStore ==
    IdleStore /\ IdleCoach /\ IdleSession /\ IdleAdaptive /\ IdleWeakness /\ IdleBadges
    /\ IdleLevels /\ IdleAppend /\ IdleFile
    /\ IdleFocus
    /\ IdleStatus
    /\ IdleRetake
    /\ IdleAtomic
    /\ IdleManager
    /\ IdleImport
SpecStore == InitSpecStore /\ [][NextStore]_vars

----------------------------------------------------------------------------
(* Claims                                                                  *)

\* C1: after any sequence of update_adaptive_difficulty calls every stored
\* record has 0.5 <= current_difficulty <= 3.0.
DifficultyInBounds ==
    \A i \in 1..Len(adaptive) :
        /\ adaptive[i].current_difficulty >= MinDifficulty
        /\ adaptive[i].current_difficulty <= MaxDifficulty

WitnessDifficultyClamped ==
    \E i \in 1..Len(adaptive) :
        /\ adaptive[i].current_difficulty = MaxDifficulty
        /\ adaptive[i].total_attempts > AdaptivePrefix

\* C2: after any sequence of update_adaptive_difficulty calls the
\* recent_performance window of every stored record holds at most 10 samples.
WindowWithinCapacity ==
    \A i \in 1..Len(adaptive) : Len(adaptive[i].recent_performance) <= WindowCap

WitnessWindowTrimmed ==
    \E i \in 1..Len(adaptive) :
        /\ Len(adaptive[i].recent_performance) = WindowCap
        /\ adaptive[i].total_attempts > WindowCap + 1
        /\ adaptiveCalls > 0

\* C3: after any sequence of recorded attempts and update_weakness_tracking
\* calls the weakness_score of every stored SkillProfile is one of
\* 10, 30, 60, 80, 90.
WeaknessScoreBanded ==
    \A i \in 1..Len(weakness) : weakness[i].weakness_score \in {10, 30, 60, 80, 90}

WitnessWeaknessBands ==
    /\ Len(weakness) = 2
    /\ weakness[1].weakness_score = 30
    /\ weakness[2].weakness_score = 80

\* C4: for every badge code, over any sequence of unlock attempts through any
\* manager sharing the store, the unlock returns true on the first attempt
\* only and false on every later one, and the store never holds more than
\* one record for the code.
UnlockAtMostOnce ==
    \A c \in BadgeCodes :
        /\ \A k \in 1..Len(unlockReturns[c]) : unlockReturns[c][k] = (k = 1)
        /\ Cardinality({i \in 1..Len(achievements) : achievements[i].code = c}) <= 1

WitnessRepeatedUnlock ==
    /\ Len(unlockReturns["sniper"]) >= 3
    /\ "sniper" \in unlocked["bridge"]
    /\ "sniper" \notin unlocked["dialog"]

\* the (stars, accuracy, time) of a stored record, and of the last call
StoredRank(rec) ==
    [stars |-> rec.starsEarned, accuracy |-> rec.bestAccuracy, time |-> rec.bestTime]

CallRank(res) ==
    [stars |-> res.starsEarned, accuracy |-> Accuracy(res.correct, res.total),
     time |-> res.time]

\* the rank of a submitted result <<correct, total, time>> of a level
SubmittedRank(level_id, r) ==
    [stars |-> CalculateStats(LevelById(level_id), r[1], r[2], r[3]).stars,
     accuracy |-> Accuracy(r[1], r[2]),
     time |-> r[3]]

\* the strict total order of the specification: a ranks above b
RankAbove(a, b) ==
    \/ a.stars > b.stars
    \/ a.stars = b.stars /\ AccGT(a.accuracy, b.accuracy)
    \/ a.stars = b.stars /\ AccEQ(a.accuracy, b.accuracy) /\ a.time < b.time

\* the order with the two tolerances of the code: accuracies closer than
\* 0.01 count as equal, and a stored time of 0 counts as no time
RankAboveWithTolerance(a, b) ==
    \/ a.stars > b.stars
    \/ a.stars = b.stars /\ AccGT(a.accuracy, b.accuracy)
    \/ /\ a.stars = b.stars
       /\ ~AccGT(a.accuracy, b.accuracy)
       /\ AccWithinEpsilon(a.accuracy, b.accuracy)
       /\ (b.time = 0 \/ a.time < b.time)

\* the step is a complete_level call on a level that has a record
IsCallOnRecorded ==
    levelCalls' = levelCalls + 1 /\ levelResult'.levelId \in DOMAIN completions

RegularSubmissions(l) ==
    /\ \A r \in submitted[l] : r[3] > 0
    /\ \A r1, r2 \in submitted[l] :
          \/ AccEQ(Accuracy(r1[1], r1[2]), Accuracy(r2[1], r2[2]))
          \/ ~AccWithinEpsilon(Accuracy(r1[1], r1[2]), Accuracy(r2[1], r2[2]))

IsFailingCall ==
    levelCalls' = levelCalls + 1 /\ ~levelResult'.success

\* C7 (as stated): a failing result is persisted with 0 stars when the level
\* has no record yet, and is discarded whenever the level has a record,
\* whatever that record holds.
FailDiscardedOnAnyRecord ==
    [][IsFailingCall =>
         LET l == levelResult'.levelId
         IN  IF l \in DOMAIN completions
             THEN completions'[l] = completions[l]
             ELSE /\ l \in DOMAIN completions'
                  /\ StoredRank(completions'[l]) = CallRank(levelResult')
                  /\ completions'[l].starsEarned = 0]_vars

\* C7 (amended): a failing result is persisted with 0 stars when the level
\* has no record yet, is discarded whenever the stored record has at least
\* one star, and replaces a stored 0-star record only when it has a higher
\* accuracy, or an accuracy within 0.01 below it and a lower time (a stored
\* time of 0 counting as no time).
FailDiscardedOnPassedRecord ==
    [][IsFailingCall =>
         LET l == levelResult'.levelId
             new == CallRank(levelResult')
         IN  IF l \notin DOMAIN completions
             THEN /\ l \in DOMAIN completions'
                  /\ StoredRank(completions'[l]) = new
                  /\ completions'[l].starsEarned = 0
             ELSE IF completions[l].starsEarned >= 1
             THEN completions'[l] = completions[l]
             ELSE StoredRank(completions'[l]) =
                     (IF RankAboveWithTolerance(new, StoredRank(completions[l]))
                      THEN new ELSE StoredRank(completions[l]))]_vars

WitnessFailAfterPass ==
    /\ levelCalls = 2
    /\ levelResult.levelId = 1
    /\ ~levelResult.success
    /\ ~levelResult.isNewRecord
    /\ completions[1].starsEarned = 1
    /\ submitted[1] = {<<8, 10, 20>>, <<7, 10, 20>>}

\* C8: a result with correct >= minCorrect passes with 3 stars if accuracy
\* >= 98, else 2 if accuracy >= 93, else 1, reduced by one but never below 1
\* when the level has a time limit and the time exceeds it; a result with
\* correct < minCorrect fails with 0 stars.  A pass never has 0 stars and a
\* fail never has more than 0.
GradingAsSpecified ==
    levelResult.levelId # 0 =>
        LET level == LevelById(levelResult.levelId)
            passes == levelResult.correct >= level.minCorrect
            late == level.timeLimit # 0 /\ levelResult.time > level.timeLimit
            \* accuracy = correct / total * 100, and 0 when total is 0
            atLeast(n) ==
                levelResult.total > 0
                /\ levelResult.correct * 100 >= n * levelResult.total
            byAccuracy == IF atLeast(98) THEN 3 ELSE IF atLeast(93) THEN 2 ELSE 1
        IN  /\ levelResult.success = passes
            /\ passes => levelResult.starsEarned \in {1, 2, 3}
            /\ passes /\ ~late => levelResult.starsEarned = byAccuracy
            /\ passes /\ late /\ byAccuracy > 1 =>
                   levelResult.starsEarned = byAccuracy - 1
            /\ passes /\ late /\ byAccuracy = 1 => levelResult.starsEarned = 1
            /\ ~passes => levelResult.starsEarned = 0

WitnessLatePassKeepsOneStar ==
    /\ levelResult.levelId = 2
    /\ levelResult.correct = 8 /\ levelResult.total = 10
    /\ levelResult.time = 40
    /\ levelResult.success
    /\ levelResult.starsEarned = 1

\* the sum of starsEarned over all completion records
RECURSIVE StarsUpTo(_)
StarsUpTo(n) ==
    IF n = 0 THEN 0
    ELSE (IF n \in DOMAIN completions THEN completions[n].starsEarned ELSE 0)
         + StarsUpTo(n - 1)

StarsEarnedSum == StarsUpTo(Len(LevelDefs))

\* the star threshold a condition names: the integer after its 'stars' token
HasStarThreshold(parts) ==
    /\ IndexOfStars(parts) # 0
    /\ Len(parts) > IndexOfStars(parts)
    /\ parts[IndexOfStars(parts) + 1] \in IntTokens

StarThreshold(parts) == IntOf(parts[IndexOfStars(parts) + 1])

\* C9 (as stated): a level is reported unlocked iff its unlockCondition is
\* 'none', or the condition references a star threshold T and the sum of
\* starsEarned over all completion records is >= T.
UnlockedIffCumulativeStars ==
    \A i \in 1..Len(LevelDefs) :
        LET parts == LevelDefs[i].unlockCondition
        IN  (~GetAllLevels(completions)[i].isLocked) <=>
                \/ parts = <<"none">>
                \/ HasStarThreshold(parts)
                   /\ StarsEarnedSum >= StarThreshold(parts)

\* the stars of the record of a level, -1 when it has none
StarsOf(id) == IF id \in DOMAIN completions THEN completions[id].starsEarned ELSE -1

\* C9 (amended): a level is reported unlocked iff its unlockCondition is
\* 'none', or it is 'total_stars_T' and the sum of starsEarned over all
\* completion records is >= T, or it is a legacy 'complete_level_X...'
\* condition and the record of level X has at least the star count the
\* condition names (1 when it names none); any other condition is locked.
UnlockedPerConditionKind ==
    LET view == GetAllLevels(completions)
    IN  /\ ~view[1].isLocked
        /\ (~view[2].isLocked) <=> (StarsEarnedSum >= 2)
        /\ (~view[3].isLocked) <=> (StarsOf(1) >= 1)
        /\ view[4].isLocked
        /\ (~view[5].isLocked) <=> (StarsOf(2) >= 3)
        /\ view[6].isLocked
        /\ (~view[7].isLocked) <=> (StarsOf(3) >= 1)

WitnessLegacyUnlockedBeforeThreshold ==
    LET view == GetAllLevels(completions)
    IN  /\ ~view[3].isLocked
        /\ view[2].isLocked
        /\ StarsEarnedSum = 1

\* C10: when two append operations on the same collection file run
\* concurrently, each read-modify-write takes effect as a unit: once both
\* threads are back, every item whose call returned True is in the file.
NoAppendLost ==
    (\A t \in Threads : pc[t] = "idle") =>
        \A it \in appended : \E i \in 1..Len(jsonFile) : jsonFile[i] = it

\* C11: a crash at any point during a store write leaves the collection
\* file holding either the complete previous contents or the complete new
\* contents, never a truncated or partially written text.
CrashLeavesWholeFile ==
    filePc = "crashed" => diskText \in {diskBefore, Text(saveData)}

\* C12: loading a collection whose file is missing or corrupt completes with
\* the empty default: the caller never waits for the store lock while
\* holding it itself, which no later step can release.
LoadNeverBlocksOnOwnLock ==
    ~(filePc = "load_create" /\ fileLock = "handler")

\* C13: when the achievement check or the level evaluation raises during
\* end_session, the flow still completes: the session is finalized, the
\* active session id is cleared and the result is a success that reports
\* no new badges and no stars.
EngineErrorStillEndsSession ==
    (lastCall.op = "end_session" /\ lastCall.raised # "none") =>
        /\ lastCall.status = "success"
        /\ lastCall.newBadges = <<>>
        /\ lastCall.raised = "level" => lastCall.levelStars = 0
        /\ ~sessionActive
        /\ currentSessionId = 0
        /\ \E i \in 1..Len(sessions) :
              sessions[i].id = lastCall.sid /\ sessions[i].total_attempts > 0

\* C14: a log_attempt or end_session request with malformed input is
\* rejected with an explicit invalid-input error (any error result is
\* accepted here) and changes no stored collection and no aggregate or
\* session counter.
MalformedInputRejected ==
    [][(sessionOps' = sessionOps + 1 /\ lastCall'.defect # "none") =>
          /\ lastCall'.status \in {"invalid_input", "error"}
          /\ UNCHANGED <<attempts, adaptive, weakness, achievements, sessions,
                         sessionStats, levelProgress>>]_vars

\* the attempts recorded for a cell, in arrival order, and the most recent
\* ten of them
CellAttempts(op, d) ==
    SelectSeq(attempts, LAMBDA a : a.operation = op /\ a.digits = d)

LastTen(w) == IF Len(w) <= 10 THEN w ELSE SubSeq(w, Len(w) - 9, Len(w))

RECURSIVE TimeTotal(_)
TimeTotal(w) == IF Len(w) = 0 THEN 0 ELSE w[1].time_taken + TimeTotal(Tail(w))

NumberCorrect(w) == Cardinality({i \in DOMAIN w : w[i].correct})

\* the step function of the specification over a window of attempts
StepFunction(w) ==
    IF Len(w) < 3 THEN <<80, "Novice">>
    ELSE IF NumberCorrect(w) * 10 >= 9 * Len(w) /\ TimeTotal(w) < 4 * Len(w)
    THEN <<10, "Master">>
    ELSE IF NumberCorrect(w) * 10 >= 8 * Len(w) THEN <<30, "Pro">>
    ELSE IF NumberCorrect(w) * 10 >= 6 * Len(w) THEN <<60, "Apprentice">>
    ELSE <<90, "Novice">>

\* C15: after update_weakness_tracking for a cell, the stored
\* (weakness_score, mastery_level) of the cell equals the step function of
\* the cell's most recent <= 10 recorded attempts.
WeaknessFollowsStepFunction ==
    [][weaknessCalls' = weaknessCalls + 1 =>
          LET u == weaknessUpdates'[Len(weaknessUpdates')]
          IN  \E i \in 1..Len(weakness') :
                  /\ weakness'[i].operation = u[1]
                  /\ weakness'[i].digits = u[2]
                  /\ <<weakness'[i].weakness_score, weakness'[i].mastery_level>>
                       = StepFunction(LastTen(CellAttempts(u[1], u[2])))]_vars

WitnessWindowDecidesBand ==
    \E i \in 1..Len(weakness) :
        LET all == CellAttempts(weakness[i].operation, weakness[i].digits)
        IN  /\ Len(all) > 10
            /\ weakness[i].total_attempts = Len(all)
            /\ weakness[i].weakness_score = 10
            /\ StepFunction(all)[1] = 30

\* the length of the trailing run of correct updates of a cell
RECURSIVE TrailingCorrect(_, _, _)
TrailingCorrect(log, op, d) ==
    IF Len(log) = 0 THEN 0
    ELSE LET last == log[Len(log)]
             rest == SubSeq(log, 1, Len(log) - 1)
         IN  IF last[1] # op \/ last[2] # d THEN TrailingCorrect(rest, op, d)
             ELSE IF last[3] THEN 1 + TrailingCorrect(rest, op, d)
             ELSE 0

\* C16: consecutive_correct of a cell equals the length of the trailing run
\* of correct update_weakness_tracking calls for that cell; updates of other
\* cells do not count.
StreakIsTrailingRun ==
    \A i \in 1..Len(weakness) :
        weakness[i].consecutive_correct =
            TrailingCorrect(weaknessUpdates, weakness[i].operation, weakness[i].digits)

WitnessStreakSurvivesOtherCell ==
    /\ Len(weaknessUpdates) >= 2
    /\ weaknessUpdates[1] = <<"Addition", 1, TRUE>>
    /\ weaknessUpdates[2] = <<"Multiplication", 2, FALSE>>
    /\ Len(weakness) = 2
    /\ weakness[1].consecutive_correct = 1
    /\ weakness[2].consecutive_correct = 0

\* the samples submitted for a cell, in arrival order, and the window the
\* specification prescribes: the last min(n, 10) of them
CellSamples(log, op, d) ==
    LET mine == SelectSeq(log, LAMBDA u : u[1] = op /\ u[2] = d)
    IN  [k \in 1..Len(mine) |-> [correct |-> mine[k][3], time_taken |-> mine[k][4]]]

\* the delta of the specification for a window holding k correct samples out
\* of n, in hundredths
SpecDelta(k, n, time_taken) ==
    IF k * 100 > 85 * n /\ time_taken < 3 THEN 15
    ELSE IF k * 100 > 75 * n THEN 10
    ELSE IF k * 10 < 4 * n THEN 0 - 12
    ELSE IF k * 10 < 6 * n THEN 0 - 8
    ELSE 0

SpecClamp(x) == IF x < 50 THEN 50 ELSE IF x > 300 THEN 300 ELSE x

\* the difficulty the specification prescribes for the call just made, the
\* prior difficulty being the given one
SpecDifficultyAfter(prior) ==
    LET u == adaptiveUpdates'[Len(adaptiveUpdates')]
        w == LastTen(CellSamples(adaptiveUpdates', u[1], u[2]))
    IN  SpecClamp(prior + SpecDelta(NumberCorrect(w), Len(w), u[4]))

\* the difficulty stored for the cell of the call just made
StoredDifficultyAfter ==
    LET u == adaptiveUpdates'[Len(adaptiveUpdates')]
    IN  adaptive'[FindEntry(adaptive', u[1], u[2])].current_difficulty

\* C17 (as stated): every update_adaptive_difficulty call, the first one for
\* a cell included with 1.0 as prior, stores clamp(previous + delta, 0.5, 3.0).
EveryCallAppliesDelta ==
    [][adaptiveCalls' = adaptiveCalls + 1 =>
          LET u == adaptiveUpdates'[Len(adaptiveUpdates')]
              i == FindEntry(adaptive, u[1], u[2])
              prior == IF i = 0 THEN 100 ELSE adaptive[i].current_difficulty
          IN  StoredDifficultyAfter = SpecDifficultyAfter(prior)]_vars

\* C17 (amended): a call for a cell that already has a record stores
\* clamp(previous + delta, 0.5, 3.0); the first call for a cell creates the
\* record with difficulty 1.0 and applies no delta.
LaterCallsApplyDelta ==
    [][adaptiveCalls' = adaptiveCalls + 1 =>
          LET u == adaptiveUpdates'[Len(adaptiveUpdates')]
              i == FindEntry(adaptive, u[1], u[2])
          IN  StoredDifficultyAfter =
                  IF i = 0 THEN 100
                  ELSE SpecDifficultyAfter(adaptive[i].current_difficulty)]_vars

WitnessFirstCallKeepsDefault ==
    /\ adaptiveCalls = 3
    /\ Len(adaptive) = 2
    /\ adaptive[1].total_attempts = 1
    /\ adaptive[1].recent_performance[1] = [correct |-> TRUE, time_taken |-> 2]
    /\ adaptive[1].current_difficulty = 100
    /\ adaptive[2].total_attempts = 2
    /\ adaptive[2].current_difficulty = 115

\* C18: after each update_adaptive_difficulty the window of a cell equals
\* the last min(n, 10) samples submitted for the cell in arrival order, and
\* the stored success_rate equals correct samples in the window / window size.
WindowIsLastSamples ==
    \A i \in 1..Len(adaptive) :
        LET w == LastTen(CellSamples(adaptiveUpdates, adaptive[i].operation,
                                     adaptive[i].digits))
        IN  /\ adaptive[i].recent_performance = w
            /\ adaptive[i].success_rate * Len(w) = NumberCorrect(w) * RateScale

WitnessOldestSampleDropped ==
    \E i \in 1..Len(adaptive) :
        LET all == CellSamples(adaptiveUpdates, adaptive[i].operation, adaptive[i].digits)
            w == adaptive[i].recent_performance
        IN  /\ Len(all) > 10
            /\ adaptiveCalls > 0
            /\ Len(w) = 10
            /\ w[10].correct # w[1].correct
            /\ adaptive[i].success_rate * 10 = 7 * RateScale

\* C19: get_weakness_areas returns exactly the cells with weakness_score
\* > 20, ordered by weakness_score descending and, among cells of equal
\* weakness_score, by last_practiced ascending (longest-neglected first).
AreasLongestNeglectedFirst ==
    [][recommendCalls' = recommendCalls + 1 =>
          /\ {<<areas'[k].operation, areas'[k].digits>> : k \in 1..Len(areas')}
               = {<<weakness[i].operation, weakness[i].digits>> :
                     i \in {j \in 1..Len(weakness) : weakness[j].weakness_score > 20}}
          /\ \A k, l \in 1..Len(areas') :
                k < l =>
                  /\ <<areas'[k].operation, areas'[k].digits>>
                       # <<areas'[l].operation, areas'[l].digits>>
                  /\ \/ areas'[k].weakness_score > areas'[l].weakness_score
                     \/ /\ areas'[k].weakness_score = areas'[l].weakness_score
                        /\ lastPracticed[<<areas'[k].operation, areas'[k].digits>>]
                             <= lastPracticed[<<areas'[l].operation, areas'[l].digits>>]]_vars

\* C20: whenever a tracked cell has weakness_score >= 60, get_recommendation
\* returns, without a random choice, a cell whose weakness_score is >= 60,
\* with a reason tagged CRITICAL.
CriticalCellRecommended ==
    [][(recommendCalls' = recommendCalls + 1
        /\ \E i \in 1..Len(weakness) : weakness[i].weakness_score >= 60) =>
          /\ recommendation'.tag = "CRITICAL"
          /\ ~recommendation'.random
          /\ \E i \in 1..Len(weakness) :
                /\ weakness[i].operation = recommendation'.operation
                /\ weakness[i].digits = recommendation'.digits
                /\ weakness[i].weakness_score >= 60]_vars

\* C21: whenever weakness areas exist, get_recommendation returns a cell
\* whose weakness_score is maximal among the cells get_weakness_areas
\* returns, on every call.
WeakestAreaRecommended ==
    [][(recommendCalls' = recommendCalls + 1 /\ Len(areas') > 0) =>
          \E k \in 1..Len(areas') :
              /\ areas'[k].operation = recommendation'.operation
              /\ areas'[k].digits = recommendation'.digits
              /\ \A l \in 1..Len(areas') :
                    areas'[l].weakness_score <= areas'[k].weakness_score]_vars

\* the session of a check_achievements call meets the sniper condition
SniperSession(e) == e.direct = "None" /\ e.total >= 20 /\ e.correct = e.total

SniperReported(e) == \E k \in 1..Len(e.newly) : e.newly[k] = "sniper"

SessionRecordFinalized ==
    [][(sessionOps' = sessionOps + 1 /\ lastCall'.op = "end_session"
        /\ lastCall'.status = "success") =>
          /\ \E i \in 1..Len(sessions') :
                /\ sessions'[i].id = lastCall'.sid
                /\ sessions'[i].total_attempts = lastCall'.total
                /\ sessions'[i].correct_count = lastCall'.correct
                /\ sessions'[i].avg_speed * lastCall'.total = lastCall'.totalTime
          /\ \A i \in 1..Len(sessions) :
                sessions[i].id # lastCall'.sid => sessions'[i] = sessions[i]]_vars

\* C29: each recorded attempt updates both derived records of its cell:
\* after the call the cell's weakness entry is computed over the attempts
\* including the new one, the cell's adaptive record has the new sample as
\* its newest entry with total_attempts one higher, and the records of
\* other cells are unchanged.
AttemptUpdatesDerivedRecords ==
    [][(sessionOps' = sessionOps + 1 /\ Len(attempts') = Len(attempts) + 1) =>
          LET a == attempts'[Len(attempts')]
              mine(r) == r.operation = a.operation /\ r.digits = a.digits
              before == {i \in 1..Len(adaptive) : mine(adaptive[i])}
          IN  /\ \E i \in 1..Len(weakness') :
                    /\ mine(weakness'[i])
                    /\ weakness'[i].total_attempts
                         = Cardinality({k \in 1..Len(attempts') : mine(attempts'[k])})
              /\ \E i \in 1..Len(adaptive') :
                    LET w == adaptive'[i].recent_performance
                    IN  /\ mine(adaptive'[i])
                        /\ w[Len(w)] = [correct |-> a.correct, time_taken |-> a.time_taken]
                        /\ adaptive'[i].total_attempts =
                             IF before = {} THEN 1
                             ELSE adaptive[CHOOSE j \in before : TRUE].total_attempts + 1
              /\ \A i \in 1..Len(weakness) : ~mine(weakness[i]) => weakness'[i] = weakness[i]
              /\ \A i \in 1..Len(adaptive) : ~mine(adaptive[i]) => adaptive'[i] = adaptive[i]]_vars

\* C30: a query issued after attempts were recorded reflects every cell's
\* current weakness entry: no knowledge_map entry (what get_mastery_grid_data
\* returns after the same analyze) dates from before, and a cell that has
\* become Master is not recommended at its earlier, weaker level.
QueriesReflectCurrentProfiles ==
    [][recommendCalls' = recommendCalls + 1 =>
          \A i \in 1..Len(weakness) :
              LET c == <<weakness[i].operation, weakness[i].digits>>
              IN  /\ knowledgeMap'[c].known =>
                        knowledgeMap'[c].score = 100 - weakness[i].weakness_score
                  /\ weakness[i].mastery_level = "Master" =>
                        ~(/\ recommendation'.operation = c[1]
                          /\ recommendation'.digits = c[2]
                          /\ recommendation'.tag \in {"CRITICAL", "BUILD CONFIDENCE"})]_vars


\* the records of a collection, irrespective of order
RecordsOf(collection) == {collection[i] : i \in 1..Len(collection)}

IsPrefixOf(earlier, later) ==
    /\ Len(earlier) <= Len(later)
    /\ \A i \in 1..Len(earlier) : later[i] = earlier[i]

MergeImported == storeCall.op = "import" /\ storeCall.merge
ReplaceImported == storeCall.op = "import" /\ ~storeCall.merge

\* C22: a bundle exported from a store and imported in full-replace mode
\* into an empty store reproduces each of the six persisted collections of
\* the source store as the same set of records.
ExportImportReproducesStore ==
    (ReplaceImported /\ storeCall.data = bundle /\ storeBefore = EmptyStore)
        => \A k \in JsonKeys \cup {"level_progress"} :
               RecordsOf(jsonStore[k]) = RecordsOf(exportedFrom[k])

\* C23: a merge import adds an attempt, session or badge only when no stored
\* record has its timestamp, id or code; a second merge of the same bundle
\* changes nothing, and afterwards no two sessions share an id and no two
\* badges a code (given that none did before, in the store or the bundle).
MergeDeduplicatesByNaturalKey ==
    LET added(k) == {i \in 1..Len(jsonStore[k]) : i > Len(storeBefore[k])}
        distinct(collection, field) ==
            \A i, j \in 1..Len(collection) :
                collection[i][field] = collection[j][field] => i = j
    IN  MergeImported =>
          /\ \A i \in added("attempts") :
                 \A j \in 1..Len(storeBefore.attempts) :
                     storeBefore.attempts[j].timestamp # jsonStore.attempts[i].timestamp
          /\ \A i \in added("sessions") :
                 \A j \in 1..Len(storeBefore.sessions) :
                     storeBefore.sessions[j].id # jsonStore.sessions[i].id
          /\ \A i \in added("achievements") :
                 \A j \in 1..Len(storeBefore.achievements) :
                     storeBefore.achievements[j].code # jsonStore.achievements[i].code
          /\ ImportAllData(jsonStore, storeCall.data, TRUE) = jsonStore
          /\ (distinct(storeBefore.sessions, "id")
                /\ distinct(BundleGet(storeCall.data, "sessions"), "id"))
                 => distinct(jsonStore.sessions, "id")
          /\ (distinct(storeBefore.achievements, "code")
                /\ distinct(BundleGet(storeCall.data, "achievements"), "code"))
                 => distinct(jsonStore.achievements, "code")

\* C24: after a merge import every attempt, session, badge, skill profile
\* and adaptive record that was stored before the import is still stored.
MergeImportIsAdditive ==
    MergeImported =>
        \A k \in JsonKeys : RecordsOf(storeBefore[k]) \subseteq RecordsOf(jsonStore[k])

\* the operations C25 lists: recording attempts, session and profile
\* updates, maintenance calls
RecordingOps == {"log_attempt", "log_session", "update_session", "unlock_achievement",
                 "complete_level", "export", "next_day"}

\* C25 as stated: after each recording, update or maintenance operation
\* every attempt recorded before is still there, unchanged.
AttemptsSurviveMaintenance ==
    storeCall.op \in RecordingOps \cup {"cleanup"}
        => IsPrefixOf(storeBefore.attempts, jsonStore.attempts)

\* C25, amended: recording attempts, session and profile updates and merge
\* imports only append to the attempts; cleanup_old_data(days) keeps, in
\* their order, exactly the attempts created on or after today - days.
AttemptsAppendOnlyUntilCleanup ==
    /\ (storeCall.op \in RecordingOps \/ MergeImported)
           => IsPrefixOf(storeBefore.attempts, jsonStore.attempts)
    /\ storeCall.op = "cleanup" =>
           /\ \A i \in 1..Len(storeBefore.attempts) :
                  LET a == storeBefore.attempts[i]
                  IN  (a \in RecordsOf(jsonStore.attempts))
                          <=> (a.created + storeCall.days >= storeDay)
           /\ RecordsOf(jsonStore.attempts) \subseteq RecordsOf(storeBefore.attempts)
           /\ \A i, j \in 1..Len(jsonStore.attempts) :
                  i < j => \E p, q \in 1..Len(storeBefore.attempts) :
                               /\ p < q
                               /\ storeBefore.attempts[p] = jsonStore.attempts[i]
                               /\ storeBefore.attempts[q] = jsonStore.attempts[j]

\* a cleanup dropped yesterday's attempt and kept today's
WitnessCleanupDropsOldAttempt ==
    /\ storeCall.op = "cleanup"
    /\ Len(storeBefore.attempts) = 2
    /\ Len(jsonStore.attempts) = 1
    /\ jsonStore.attempts[1] = storeBefore.attempts[2]

CodesOf(collection) == {collection[i].code : i \in 1..Len(collection)}

\* C26 as stated: a code in the unlocked set stays there under unlock
\* attempts, recorded sessions and imports in either mode.
BadgeNeverRevoked ==
    storeCall.op \in RecordingOps \cup {"import"}
        => CodesOf(storeBefore.achievements) \subseteq CodesOf(jsonStore.achievements)

\* C26, amended: under unlock attempts, recorded sessions and attempts,
\* cleanup and merge imports the set of unlocked codes only grows; a
\* full-replace import sets it to the codes of the bundle.
BadgeRevokedOnlyByReplace ==
    /\ (storeCall.op \in RecordingOps \cup {"cleanup"} \/ MergeImported)
           => CodesOf(storeBefore.achievements) \subseteq CodesOf(jsonStore.achievements)
    /\ ReplaceImported
           => CodesOf(jsonStore.achievements)
                = CodesOf(BundleGet(storeCall.data, "achievements"))

\* a merge import of a bundle without first_win kept the stored first_win
WitnessMergeKeepsBadge ==
    /\ MergeImported
    /\ "first_win" \in CodesOf(storeBefore.achievements)
    /\ "first_win" \notin CodesOf(BundleGet(storeCall.data, "achievements"))
    /\ CodesOf(jsonStore.achievements) = {"first_win", "sniper"}


\* C31: a complete_level call of the level engine that misses the required
\* questions, the minimum accuracy or a set time limit returns no success,
\* awards 0 stars and leaves the stored progress as it was; a passing call
\* awards 1 to 3 stars, leaves the stars of the level no lower than they
\* were, and leaves every other level alone.
EngineAwardsOnlyOnPass ==
    [][sessionOps' # sessionOps =>
          LET c == lastCall'
              lv == CHOOSE l \in EngineLevels : l.id = c.level
              passed == /\ c.total >= lv.questions
                        /\ c.correct * 100 >= lv.min_accuracy * c.total
                        /\ (lv.time_limit = 0 \/ c.totalTime <= lv.time_limit)
              starsOf(progress) == IF lv.id \in DOMAIN progress THEN progress[lv.id] ELSE 0
          IN  IF ~passed
              THEN /\ c.status = "failed"
                   /\ c.levelStars = 0
                   /\ levelProgress' = levelProgress
              ELSE /\ c.status = "success"
                   /\ c.levelStars \in 1..3
                   /\ starsOf(levelProgress') >= starsOf(levelProgress)
                   /\ starsOf(levelProgress') >= c.levelStars
                   /\ \A l \in DOMAIN levelProgress :
                          l # lv.id => levelProgress'[l] = levelProgress[l]]_vars

\* a one-star pass of the speed run after a three-star one: the three stars stay
WitnessLowerPassKeepsStars ==
    /\ lastCall.op = "complete_level"
    /\ lastCall.level = SpeedLevel.id
    /\ lastCall.status = "success"
    /\ lastCall.levelStars = 1
    /\ levelProgress[SpeedLevel.id] = 3


\* C32: a focus is bounded: once 15 questions have been answered in the
\* current focus, get_coach_recommendation does not continue it but
\* selects a fresh recommendation.
FocusEndsAfterFifteen ==
    coachResult.continued => coachResult.answered < 15


\* C33: a badge-status query lists as unlocked every badge of the persisted
\* unlocked set, in particular each badge that an earlier session end
\* reported as newly unlocked.
StatusListsPersistedBadges ==
    badgeStatus.asked => \A c \in badgeStatus.stored : badgeStatus.view[c]


\* C34: in retake mode a question is out of the queue only if its last two
\* verdicts were both correct, and the mode is over exactly when the queue
\* is empty (the mode may still be on while the timer that shows the result
\* of the last answer is pending).
RetakeNeedsTwoInARow ==
    /\ \A q \in retakeSet :
           q \notin QueueSet(retakeQueue) =>
               LET v == retakeLog[q]
               IN  Len(v) >= 2 /\ v[Len(v)] /\ v[Len(v) - 1]
    /\ retakeSet # {} =>
           /\ ~retakeActive => retakeQueue = <<>>
           /\ (retakeQueue = <<>> /\ ~timerPending) => ~retakeActive


\* the completion file is whole: the previous contents or the new ones
CompletionFileWhole ==
    /\ completionFile \in {completionBefore, Text(atomicData)}
    /\ completionFile[1] = "[" /\ completionFile[Len(completionFile)] = "]"
    /\ Len(completionFile) >= 2

\* C35 as stated: the completion file is never partial, and a call that
\* met an error has returned False with the temp file removed.
AtomicWriteLeavesNoTemp ==
    /\ CompletionFileWhole
    /\ atomicReturn.value = "false" => tempFile = MissingFile

\* C35, amended: the completion file is never partial; a call that met an
\* error returns False with the completion file as it was, and the temp
\* file is gone unless its removal raised too; a call that returns True
\* has put the new contents in place and left no temp file.
AtomicWriteKeepsWholeFile ==
    /\ CompletionFileWhole
    /\ (atomicPc = "idle" /\ atomicReturn.value = "false") =>
           /\ completionFile = completionBefore
           /\ tempFile = MissingFile \/ atomicReturn.removeRaised
    /\ (atomicPc = "idle" /\ atomicReturn.value = "true") =>
           /\ completionFile = Text(atomicData)
           /\ tempFile = MissingFile

\* json.dump failed half way and the removal of the temp file failed too
WitnessFailedWriteLeavesPartialTemp ==
    /\ atomicPc = "idle"
    /\ atomicReturn.value = "false"
    /\ tempFile \notin {MissingFile, Text(atomicData)}
    /\ Len(tempFile) >= 1
    /\ completionFile = completionBefore
    /\ completionBefore # Text(atomicData)


\* C36: after any sequence of save_attempts calls the stored attempts have
\* pairwise distinct ids.
StoredAttemptIdsDistinct ==
    \A i, j \in 1..Len(attemptsData.attempts) :
        attemptsData.attempts[i] = attemptsData.attempts[j] => i = j


\* C37: an import that has overwritten the user file was preceded by a
\* successfully created backup, and the newest backup holds the file as it
\* was before the import.
ImportPrecededByBackup ==
    importCall.imported =>
        /\ importCall.backup = "created"
        /\ backups # <<>>
        /\ backups[Len(backups)] = importCall.before


\* C38: a session just created has an id that no session stored before it
\* has, so update_session with that id changes the new record and no other.
NewSessionIdIsFresh ==
    storeCall.op = "log_session" =>
        LET n == Len(jsonStore.sessions)
            new == jsonStore.sessions[n]
            ended == StoreSessionTotal(jsonStore, new.id, 10).sessions
        IN  /\ \A i \in 1..(n - 1) : jsonStore.sessions[i].id # new.id
            /\ \A i \in 1..(n - 1) : ended[i] = jsonStore.sessions[i]
            /\ ended[n].total_attempts = 10


\* C39: a complete_level call for a level that is locked at the time of the
\* call leaves the completion records as they are.
LockedLevelRecordsNothing ==
    [][(/\ levelCalls' # levelCalls
        /\ \E i \in 1..Len(LevelDefs) :
              /\ LevelDefs[i].id = levelResult'.levelId
              /\ GetAllLevels(completions)[i].isLocked)
       => completions' = completions]_vars

\* C40: a level reported unlocked is still reported unlocked after every
\* further complete_level call; no completion record disappears, no stored
\* star count goes down and the cumulative star total never decreases.
UnlockingIsMonotone ==
    [][/\ \A i \in 1..Len(LevelDefs) :
            ~GetAllLevels(completions)[i].isLocked
                => ~GetAllLevels(completions')[i].isLocked
       /\ \A id \in DOMAIN completions :
            /\ id \in DOMAIN completions'
            /\ completions'[id].starsEarned >= completions[id].starsEarned
       /\ TotalStars(completions') >= TotalStars(completions)]_vars

\* level 2, unlocked by the three stars of level 1, stays unlocked after a
\* lower result on level 1 has been submitted
WitnessUnlockedSurvivesWorseResult ==
    /\ levelCalls >= 2
    /\ levelResult.levelId = 1
    /\ 1 \in DOMAIN completions
    /\ levelResult.starsEarned < completions[1].starsEarned
    /\ \E i \in 1..Len(LevelDefs) :
          /\ LevelDefs[i].id = 2
          /\ ~GetAllLevels(completions)[i].isLocked

====
